---- MODULE Spec2Model ----
(***************************************************************************)
(* Model of xray_core/src/tree.rs: a persistent B-tree of items with      *)
(* cached monoidal summaries, copy-on-write sharing through Arc, a        *)
(* forward iterator and a seeking/slicing cursor.                         *)
(*                                                                         *)
(* Arc<Node<T>> is modelled as a cell of a heap with a strong count, so    *)
(* that Arc::make_mut (mutate in place when unique, clone when shared) is  *)
(* a real step of every mutating operation.                                *)
(***************************************************************************)
EXTENDS Integers, Sequences, FiniteSets, TLC

\* ------------------------------------------------------------------------
\* Program constants
\* ------------------------------------------------------------------------
MIN_CHILDREN == 2
MAX_CHILDREN == 4

\* Option::None for Option<Tree<T>> / Option<&Tree<T>> (heap ids start at 1)
Null == 0

\* let v = e; body: e is computed once and body is given its value
Let(e, body(_)) == CHOOSE x \in {body(v) : v \in {e}} : TRUE

\* ------------------------------------------------------------------------
\* Bounds of the model
\* ------------------------------------------------------------------------
\* Short runs: both handles start empty, MaxOps builder operations follow, no
\* handle grows beyond MaxLen items.
MaxOps == 3
MaxLen == 8
\* Tall runs: the handles start as trees built by extend, of up to TallLen
\* items each (height 3 from 14 items on), and TallOps operations follow.
\* splice works on one tree: it is explored in the tall runs that build one.
TallLen == 14
TallOps == 1
\* most items one extend appends
MaxExtend == 5
\* most items one splice inserts
MaxNew == 2
\* Cursor runs: the cursor walks a tree built by extend, of up to MaxLen
\* items, or the tree of CurLen items built by pushing an extended tree onto
\* one of CurHead items (2 and 11 items give height 3, with nodes of 2 and
\* of 3 children, the first one of them at the second place)
CurLen == 13
CurHead == 2
\* the non-empty slices of a chain are counted up to MaxSegs
MaxSegs == 2
\* most next, prev and slice calls that follow a prev() before the cursor is
\* sought or reset again
MaxAfterPrev == 2
MaxNones == 2
MaxBeyond == 2
SubLen == 7
MaxInterleave == 3
SnapLen == 14
SnapCut == 1
SnapNew == 1
SnapStride == 3

\* ------------------------------------------------------------------------
\* Summary algebra: the tests' IntegersSummary {count, sum}, extended with
\* the free monoid over items (seq) so that the order of accumulation is
\* observable: the Summary of trait Item need not be commutative.
\* ------------------------------------------------------------------------
SummaryDefault == [count |-> 0, sum |-> 0, seq |-> << >>]

summarize(item) == [count |-> 1, sum |-> item, seq |-> <<item>>]

\* s += &o
add_assign(s, o) ==
    [count |-> s.count + o.count, sum |-> s.sum + o.sum, seq |-> s.seq \o o.seq]

Dimensions == {"Count", "Sum"}

\* Dimension::from_summary for Count and Sum
from_summary(D, s) == IF D = "Count" THEN s.count ELSE s.sum

\* Dimension::default
dim_default(D) == from_summary(D, SummaryDefault)

\* ------------------------------------------------------------------------
\* Heap of Arc cells.  m = [heap |-> id -> Node, rc |-> id -> strong count,
\* calls |-> record of the append_children calls of the running operation]
\* ------------------------------------------------------------------------
EmptyMem == [heap |-> << >>, rc |-> << >>, calls |-> << >>]

\* A public operation starts with an empty call record.
Entered(m) == [m EXCEPT !.calls = << >>]

LeafNode(summary, value) == [kind |-> "Leaf", summary |-> summary, value |-> value]

InternalNode(rightmost_leaf, summary, children, height) ==
    [kind |-> "Internal", rightmost_leaf |-> rightmost_leaf, summary |-> summary,
     children |-> children, height |-> height]

\* Arc::new: a fresh cell, strong count 1; the node's fields are moved in.
ArcNew(m, node) ==
    LET used == DOMAIN m.heap
        id == CHOOSE i \in 1..(Cardinality(used) + 1) :
                  i \notin used /\ \A j \in 1..(i - 1) : j \in used
    IN [m |-> [m EXCEPT !.heap = @ @@ (id :> node), !.rc = @ @@ (id :> 1)], id |-> id]

\* Arc::clone (Tree::clone): one more strong reference to the same cell.
ArcClone(m, id) == [m EXCEPT !.rc[id] = @ + 1]

RECURSIVE ArcCloneAll(_, _)
ArcCloneAll(m, ids) ==
    IF ids = << >> THEN m ELSE ArcCloneAll(ArcClone(m, Head(ids)), Tail(ids))

\* Drop of a Tree handle: the cell is freed when its last reference goes, and
\* then the handles it holds (rightmost_leaf, children) are dropped in turn.
RECURSIVE ArcDrop(_, _), ArcDropAll(_, _)
ArcDrop(m, id) ==
    IF m.rc[id] > 1 THEN [m EXCEPT !.rc[id] = @ - 1]
    ELSE LET node == m.heap[id]
             m1 == [m EXCEPT !.heap = [i \in (DOMAIN m.heap) \ {id} |-> m.heap[i]],
                             !.rc = [i \in (DOMAIN m.rc) \ {id} |-> m.rc[i]]]
         IN IF node.kind = "Leaf" THEN m1
            ELSE ArcDropAll(IF node.rightmost_leaf # Null
                                THEN ArcDrop(m1, node.rightmost_leaf) ELSE m1,
                            node.children)

ArcDropAll(m, ids) ==
    IF ids = << >> THEN m ELSE ArcDropAll(ArcDrop(m, Head(ids)), Tail(ids))

\* Option<Tree>::clone / drop
OptClone(m, id) == IF id = Null THEN m ELSE ArcClone(m, id)
OptDrop(m, id) == IF id = Null THEN m ELSE ArcDrop(m, id)

\* Node::clone (derived): every handle the node holds is cloned.
NodeClone(m, node) ==
    IF node.kind = "Leaf" THEN m
    ELSE ArcCloneAll(OptClone(m, node.rightmost_leaf), node.children)

\* A variant of make_mut that never clones: it hands out the shared cell.
MakeMutInPlace(m, id) == [m |-> m, id |-> id]

\* Arc::make_mut(&mut self.0): the cell itself when this is its only
\* reference; otherwise a clone of the node in a fresh cell, which replaces
\* this reference (the old cell loses one).  The caller stores .id back in
\* the slot the reference lives in.
MakeMut(m, id) ==
    IF m.rc[id] = 1 THEN [m |-> m, id |-> id]
    ELSE LET node == m.heap[id]
             a == ArcNew(NodeClone(m, node), node)
         IN [m |-> [a.m EXCEPT !.rc[id] = @ - 1], id |-> a.id]

\* ------------------------------------------------------------------------
\* Tree accessors
\* ------------------------------------------------------------------------
IsLeaf(m, t) == m.heap[t].kind = "Leaf"

summary(m, t) == m.heap[t].summary

\* panics on a leaf: the field does not exist there
children(m, t) == m.heap[t].children

\* panics on an internal node
value(m, t) == m.heap[t].value

rightmost_leaf(m, t) == IF IsLeaf(m, t) THEN t ELSE m.heap[t].rightmost_leaf

height(m, t) == IF IsLeaf(m, t) THEN 0 ELSE m.heap[t].height

\* A variant of underflowing that accepts every node.
never_underflowing(m, t) == FALSE

underflowing(m, t) ==
    IF IsLeaf(m, t) THEN FALSE ELSE Len(m.heap[t].children) < MIN_CHILDREN

is_empty(m, t) == IF IsLeaf(m, t) THEN FALSE ELSE Len(m.heap[t].children) = 0

\* Option<&T>: None is << >>, Some(v) is <<v>>
None == << >>
Some(v) == <<v>>

\* Tree::last
last(m, t) ==
    IF rightmost_leaf(m, t) = Null THEN None ELSE Some(value(m, rightmost_leaf(m, t)))

\* ------------------------------------------------------------------------
\* Tree builder
\* ------------------------------------------------------------------------
\* A variant of summarize_children that accumulates from the last child to
\* the first.
RECURSIVE summarize_children_reversed(_, _)
summarize_children_reversed(m, ch) ==
    IF ch = << >> THEN SummaryDefault
    ELSE add_assign(summarize_children_reversed(m, Tail(ch)), summary(m, Head(ch)))

\* Tree::summarize_children
RECURSIVE summarize_children(_, _)
summarize_children(m, ch) ==
    IF ch = << >> THEN SummaryDefault
    ELSE add_assign(summarize_children(m, SubSeq(ch, 1, Len(ch) - 1)),
                    summary(m, ch[Len(ch)]))

\* A variant of the rightmost-leaf computation that looks at the first child.
rightmost_of_first(m, ch) ==
    IF ch = << >> THEN Null ELSE rightmost_leaf(m, ch[1])

\* children.last().and_then(|last_child| last_child.rightmost_leaf().cloned())
rightmost_of_children(m, ch) ==
    IF ch = << >> THEN Null ELSE rightmost_leaf(m, ch[Len(ch)])

\* A variant of the height computation that ignores the children.
height_one(m, ch) == 1

\* children.get(0).map(|c| c.height()).unwrap_or(0) + 1
height_of_children(m, ch) == (IF ch = << >> THEN 0 ELSE height(m, ch[1])) + 1

\* Tree::from_children: the children are moved in; the rightmost leaf of the
\* last child is cloned into the cache.
from_children(m, ch) ==
    LET s == summarize_children(m, ch)
        rl == rightmost_of_children(m, ch)
        h == height_of_children(m, ch)
    IN ArcNew(OptClone(m, rl), InternalNode(rl, s, ch, h))

\* Tree::new
new(m) == from_children(m, << >>)

\* the split point of append_children
\* A variant of the midpoint that rounds down.
midpoint_floor(child_count) == child_count \div 2

midpoint_of(child_count) == (child_count + (child_count % 2)) \div 2

\* What one append_children call was given and what it left: the children
\* of self before the call followed by new_children, the children of self
\* after it, and the children of the returned sibling (split = Null: none).
Called(m, all_children, self, split) ==
    [m EXCEPT !.calls = Append(@, [all |-> all_children,
                                   kept |-> m.heap[self].children,
                                   split |-> split # Null,
                                   sibling |-> IF split = Null THEN << >>
                                               ELSE m.heap[split].children])]

\* Tree::append_children -> [m, self, split]; split = Null is Option::None
append_children(m, self, new_children) ==
    Let(MakeMut(m, self), LAMBDA u :
      LET node == u.m.heap[u.id]
          child_count == Len(node.children) + Len(new_children)
      IN IF child_count > MAX_CHILDREN
         THEN LET midpoint == midpoint_of(child_count)
                  all_children == node.children \o new_children
                  left_children == SubSeq(all_children, 1, midpoint)
                  right_children == SubSeq(all_children, midpoint + 1, child_count)
              IN \* both halves are collected from cloned handles, and
                 \* *children = left_children drops the old vector
                 Let(ArcDropAll(ArcCloneAll(u.m, all_children), node.children), LAMBDA m2 :
                   LET new_rl == rightmost_leaf(m2, left_children[Len(left_children)])
                   IN Let(OptDrop(OptClone(m2, new_rl), node.rightmost_leaf), LAMBDA m3 :
                        Let(from_children(
                                [m3 EXCEPT !.heap[u.id] =
                                    InternalNode(new_rl,
                                                 summarize_children(m3, left_children),
                                                 left_children, node.height)],
                                right_children),
                            LAMBDA r : [m |-> Called(r.m, all_children, u.id, r.id),
                                        self |-> u.id, split |-> r.id])))
         ELSE [m |-> Called([ArcCloneAll(u.m, new_children) EXCEPT
                                !.heap[u.id].children = node.children \o new_children],
                            node.children \o new_children, u.id, Null),
               self |-> u.id, split |-> Null])

\* Tree::push_recursive -> [m, self, split]; `other` is consumed
RECURSIVE push_recursive(_, _, _)
push_recursive(m, self, other) ==
    Let(MakeMut(m, self), LAMBDA u :
      LET \* *self.summary_mut() += other.summary()
          m1 == [u.m EXCEPT !.heap[u.id].summary = add_assign(@, summary(u.m, other))]
          \* *self.rightmost_leaf_mut() = other.rightmost_leaf().cloned()
          new_rl == rightmost_leaf(m1, other)
          old_rl == m1.heap[u.id].rightmost_leaf
      IN Let(OptDrop([OptClone(m1, new_rl) EXCEPT !.heap[u.id].rightmost_leaf = new_rl],
                     old_rl),
             LAMBDA m2 :
        LET self_height == height(m2, u.id)
            other_height == height(m2, other)
        IN IF other_height = self_height
           THEN Let(append_children(m2, u.id, children(m2, other)), LAMBDA r :
                  [m |-> ArcDrop(r.m, other), self |-> r.self, split |-> r.split])
           ELSE IF other_height = self_height - 1 /\ ~underflowing(m2, other)
           THEN Let(append_children(m2, u.id, <<other>>), LAMBDA r :
                  [m |-> ArcDrop(r.m, other), self |-> r.self, split |-> r.split])
           ELSE \* self.last_child_mut().push_recursive(other)
                Let(MakeMut(m2, u.id), LAMBDA v :
                  LET n == Len(children(v.m, v.id))
                  IN Let(push_recursive(v.m, children(v.m, v.id)[n], other), LAMBDA r :
                       LET m3 == [r.m EXCEPT !.heap[v.id].children[n] = r.self]
                       IN IF r.split # Null
                          THEN Let(append_children(m3, v.id, <<r.split>>), LAMBDA a :
                                 [m |-> ArcDrop(a.m, r.split), self |-> a.self,
                                  split |-> a.split])
                          ELSE [m |-> m3, self |-> v.id, split |-> Null]))))

\* Tree::push_tree -> [m, self]; `other` is consumed
RECURSIVE push_tree(_, _, _), push_tree_each(_, _, _)

\* A variant of the loop over a taller tree's children that stops after the
\* first child.
push_tree_first_only(m, self, others) ==
    IF others = << >> THEN [m |-> m, self |-> self]
    ELSE push_tree(ArcClone(m, Head(others)), self, Head(others))

push_tree(m, self, other) ==
    IF is_empty(m, other) THEN [m |-> ArcDrop(m, other), self |-> self]
    ELSE IF height(m, self) < height(m, other)
    THEN \* other is taller: push its children one at a time
         Let(push_tree_each(m, self, children(m, other)), LAMBDA r :
           [m |-> ArcDrop(r.m, other), self |-> r.self])
    ELSE Let(push_recursive(m, self, other), LAMBDA r :
           IF r.split # Null
           THEN \* *self = from_children(vec![self.clone(), split])
                Let(from_children(ArcClone(r.m, r.self), <<r.self, r.split>>), LAMBDA f :
                  [m |-> ArcDrop(f.m, r.self), self |-> f.id])
           ELSE [m |-> r.m, self |-> r.self])

\* for other_child in other.children().iter().cloned() { self.push_tree(other_child) }
push_tree_each(m, self, others) ==
    IF others = << >> THEN [m |-> m, self |-> self]
    ELSE Let(push_tree(ArcClone(m, Head(others)), self, Head(others)), LAMBDA r :
           push_tree_each(r.m, r.self, Tail(others)))

\* Tree::push
push(m, self, item) ==
    Let(ArcNew(m, LeafNode(summarize(item), item)), LAMBDA a : push_tree(a.m, self, a.id))

\* Tree::from_item
from_item(m, item) == Let(new(m), LAMBDA t : push(t.m, t.id, item))

\* Extend::extend
RECURSIVE extend(_, _, _)
extend(m, self, its) ==
    IF its = << >> THEN [m |-> m, self |-> self]
    ELSE Let(push(m, self, Head(its)), LAMBDA r : extend(r.m, r.self, Tail(its)))

\* A variant of the leaf test whose range is closed at its end.
leaf_in_range_closed(node_start, start, end) == start <= node_start /\ node_start <= end

\* the test of the Leaf arm of append_subsequence_recursive
leaf_in_range(node_start, start, end) == start <= node_start /\ node_start < end

\* Tree::append_subsequence_recursive -> [m, self |-> result]
RECURSIVE append_subsequence_recursive(_, _, _, _, _, _, _)
RECURSIVE append_subsequence_children(_, _, _, _, _, _, _)
append_subsequence_recursive(m, self, result, D, node_start, start, end) ==
    IF ~IsLeaf(m, self)
    THEN LET node_end == node_start + from_summary(D, summary(m, self))
         IN IF start <= node_start /\ node_end <= end
            THEN push_tree(ArcClone(m, self), result, self)
            ELSE IF node_start < end \/ start < node_end
            THEN append_subsequence_children(m, children(m, self), result, D,
                                             node_start, start, end)
            ELSE [m |-> m, self |-> result]
    ELSE IF leaf_in_range(node_start, start, end)
         THEN push_tree(ArcClone(m, self), result, self)
         ELSE [m |-> m, self |-> result]

\* the loop over the children, child_start advancing by each child's measure
append_subsequence_children(m, ch, result, D, child_start, start, end) ==
    IF ch = << >> THEN [m |-> m, self |-> result]
    ELSE Let(append_subsequence_recursive(m, Head(ch), result, D, child_start, start, end),
             LAMBDA r :
               append_subsequence_children(
                   r.m, Tail(ch), r.self, D,
                   child_start + from_summary(D, summary(r.m, Head(ch))), start, end))

\* Tree::append_subsequence
append_subsequence(m, self, result, D, start, end) ==
    append_subsequence_recursive(m, self, result, D, dim_default(D), start, end)

\* Tree::splice -> [m, self]
splice(m, self, D, start, end, new_items) ==
    Let(new(m), LAMBDA r0 :
      Let(append_subsequence(r0.m, self, r0.id, D, dim_default(D), start), LAMBDA r1 :
        Let(extend(r1.m, r1.self, new_items), LAMBDA r2 :
          Let(append_subsequence(r2.m, self, r2.self, D, end,
                                 from_summary(D, summary(r2.m, self))),
              LAMBDA r3 :
                \* *self = result: the old tree is dropped
                [m |-> ArcDrop(r3.m, self), self |-> r3.self]))))

\* Tree::len
len(m, self, D) == from_summary(D, summary(m, self))

\* ------------------------------------------------------------------------
\* Iter
\* ------------------------------------------------------------------------
\* Iter::new
Iter_new(t) == [tree |-> t, did_start |-> FALSE, stack |-> << >>]

\* Iter::seek_to_first_item -> [stack, item]
RECURSIVE Iter_descend(_, _, _)
Iter_descend(m, stack, t) ==
    IF IsLeaf(m, t) THEN [stack |-> stack, item |-> Some(value(m, t))]
    ELSE Iter_descend(m, Append(stack, <<t, 0>>), children(m, t)[1])

Iter_seek_to_first_item(m, stack, t) ==
    IF is_empty(m, t) THEN [stack |-> stack, item |-> None]
    ELSE Iter_descend(m, stack, t)

\* the while loop of Iter::next over the stack -> [stack, item]
RECURSIVE Iter_advance(_, _)
Iter_advance(m, stack) ==
    IF Len(stack) = 0 THEN [stack |-> stack, item |-> None]
    ELSE LET n == Len(stack)
             tree == stack[n][1]
             index == stack[n][2] + 1
             stack1 == [stack EXCEPT ![n] = <<tree, index>>]
         IN IF index < Len(children(m, tree))
            THEN Iter_seek_to_first_item(m, stack1, children(m, tree)[index + 1])
            ELSE Iter_advance(m, SubSeq(stack1, 1, n - 1))

\* A variant of Iter_next that starts over once the stack has run empty.
Iter_next_restarting(m, i) ==
    IF i.did_start /\ i.stack # << >>
    THEN LET r == Iter_advance(m, i.stack)
         IN [it |-> [i EXCEPT !.stack = r.stack], item |-> r.item]
    ELSE LET r == Iter_seek_to_first_item(m, i.stack, i.tree)
         IN [it |-> [i EXCEPT !.did_start = TRUE, !.stack = r.stack], item |-> r.item]

\* Iterator::next for Iter -> [it, item]
Iter_next(m, i) ==
    IF i.did_start
    THEN LET r == Iter_advance(m, i.stack)
         IN [it |-> [i EXCEPT !.stack = r.stack], item |-> r.item]
    ELSE LET r == Iter_seek_to_first_item(m, i.stack, i.tree)
         IN [it |-> [i EXCEPT !.did_start = TRUE, !.stack = r.stack], item |-> r.item]

\* tests::items: self.iter().cloned().collect()
RECURSIVE Iter_collect(_, _, _)
Iter_collect(m, it, acc) ==
    Let(Iter_next(m, it), LAMBDA r :
      IF r.item = None THEN acc ELSE Iter_collect(m, r.it, acc \o r.item))

items(m, t) == Iter_collect(m, Iter_new(t), << >>)

\* ------------------------------------------------------------------------
\* Cursor.  A cursor borrows its tree: c.tree and the frames of c.stack are
\* references (heap ids, no strong count).  Frame indices are 0-based as in
\* the source; children(m, t)[i + 1] is children()[i].
\* ------------------------------------------------------------------------
Left == "Left"
Right == "Right"
SeekBias == {Left, Right}

Frame(t, index, s) == [tree |-> t, index |-> index, summary |-> s]

\* Cursor::new
Cursor_new(t) ==
    [tree |-> t, did_seek |-> FALSE, stack |-> << >>, prev_leaf |-> Null,
     summary |-> SummaryDefault]

\* A variant of Cursor_reset that leaves the summary and prev_leaf as they are.
Cursor_reset_position(c) == [c EXCEPT !.did_seek = FALSE, !.stack = << >>]

\* Cursor::reset
Cursor_reset(c) ==
    [c EXCEPT !.did_seek = FALSE, !.stack = << >>, !.prev_leaf = Null,
              !.summary = SummaryDefault]

\* Cursor::start
Cursor_start(c, D) == from_summary(D, c.summary)

\* Cursor::cur_leaf -> [panic, leaf]; the assertion fails before any seek
Cursor_cur_leaf(m, c) ==
    IF ~c.did_seek THEN [panic |-> TRUE, leaf |-> Null]
    ELSE IF c.stack = << >> THEN [panic |-> FALSE, leaf |-> Null]
    ELSE LET top == c.stack[Len(c.stack)]
         IN [panic |-> FALSE, leaf |-> children(m, top.tree)[top.index + 1]]

\* Cursor::item -> [panic, value]
Cursor_item(m, c) ==
    LET l == Cursor_cur_leaf(m, c)
    IN [panic |-> l.panic,
        value |-> IF l.leaf = Null THEN None ELSE Some(value(m, l.leaf))]

\* Cursor::prev_item
Cursor_prev_item(m, c) ==
    IF c.prev_leaf = Null THEN None ELSE Some(value(m, c.prev_leaf))

\* A variant of Cursor_seek_to_first_item that descends to the last child.
RECURSIVE Cursor_seek_to_rightmost(_, _, _)
Cursor_seek_to_rightmost(m, c, t) ==
    IF IsLeaf(m, t) THEN [c EXCEPT !.did_seek = TRUE]
    ELSE Cursor_seek_to_rightmost(
             m, [c EXCEPT !.did_seek = TRUE,
                          !.stack = Append(@, Frame(t, Len(children(m, t)) - 1, c.summary))],
             children(m, t)[Len(children(m, t))])

\* A variant of Cursor_seek_to_first_item that stops at the first frame.
Cursor_seek_to_first_child(m, c, t) ==
    IF IsLeaf(m, t) THEN [c EXCEPT !.did_seek = TRUE]
    ELSE [c EXCEPT !.did_seek = TRUE, !.stack = Append(@, Frame(t, 0, c.summary))]

\* Cursor::seek_to_first_item
RECURSIVE Cursor_seek_to_first_item(_, _, _)
Cursor_seek_to_first_item(m, c, t) ==
    IF IsLeaf(m, t) THEN [c EXCEPT !.did_seek = TRUE]
    ELSE Cursor_seek_to_first_item(
             m, [c EXCEPT !.did_seek = TRUE,
                          !.stack = Append(@, Frame(t, 0, c.summary))],
             children(m, t)[1])

\* Cursor::seek_to_last_item
RECURSIVE Cursor_seek_to_last_item(_, _, _)
Cursor_seek_to_last_item(m, c, t) ==
    IF IsLeaf(m, t) THEN [c EXCEPT !.did_seek = TRUE]
    ELSE LET n == Len(children(m, t))
         IN Cursor_seek_to_last_item(
                m, [c EXCEPT !.did_seek = TRUE,
                             !.stack = Append(@, Frame(t, n - 1, c.summary)),
                             !.summary = add_assign(@, summarize_children(
                                             m, SubSeq(children(m, t), 1, n - 1)))],
                children(m, t)[n])

\* the while loop of Cursor::next
RECURSIVE Cursor_next_loop(_, _)
Cursor_next_loop(m, c) ==
    IF Len(c.stack) = 0 THEN c
    ELSE LET n == Len(c.stack)
             top == c.stack[n]
             c1 == IF height(m, top.tree) = 1
                   THEN LET prev_leaf == children(m, top.tree)[top.index + 1]
                        IN [c EXCEPT !.prev_leaf = prev_leaf,
                                     !.summary = add_assign(@, summary(m, prev_leaf))]
                   ELSE c
             index == top.index + 1
             c2 == [c1 EXCEPT !.stack[n].index = index]
         IN IF index < Len(children(m, top.tree))
            THEN Cursor_seek_to_first_item(m, c2, children(m, top.tree)[index + 1])
            ELSE Cursor_next_loop(m, [c2 EXCEPT !.stack = SubSeq(@, 1, n - 1)])

\* Cursor::next -> [panic, c]
Cursor_next(m, c) ==
    IF ~c.did_seek THEN [panic |-> TRUE, c |-> c]
    ELSE [panic |-> FALSE, c |-> Cursor_next_loop(m, c)]

\* A variant of restored_summary that leaves the cursor's summary as it is.
kept_summary(m, c, top, index) == c.summary

\* self.summary = summary.clone();
\* for child in &parent.children()[0..*index] { self.summary += child.summary() }
restored_summary(m, c, top, index) ==
    add_assign(top.summary, summarize_children(m, SubSeq(children(m, top.tree), 1, index)))

\* the while loop of Cursor::prev (the stack is not empty, or no leaf precedes)
RECURSIVE Cursor_prev_loop(_, _)
Cursor_prev_loop(m, c) ==
    IF Len(c.stack) = 0 THEN c
    ELSE LET n == Len(c.stack)
             top == c.stack[n]
         IN IF top.index = 0
            THEN Cursor_prev_loop(m, [c EXCEPT !.stack = SubSeq(@, 1, n - 1)])
            ELSE LET index == top.index - 1
                     c1 == [c EXCEPT
                              !.stack[n].index = index,
                              !.summary = restored_summary(m, c, top, index)]
                 IN Cursor_seek_to_last_item(m, c1, children(m, top.tree)[index + 1])

\* A variant of Cursor_prev_leaf_of that looks at the given frame only.
Cursor_prev_leaf_of_frame(m, stack, stack_index) ==
    IF stack[stack_index].index = 0 THEN Null
    ELSE rightmost_leaf(m, children(m, stack[stack_index].tree)[stack[stack_index].index])

\* the loop of Cursor::prev that finds the new prev_leaf, from frame stack_index
\* (1-based here) downwards
RECURSIVE Cursor_prev_leaf_of(_, _, _)
Cursor_prev_leaf_of(m, stack, stack_index) ==
    LET f == stack[stack_index]
    IN IF f.index = 0
       THEN IF stack_index = 1 THEN Null
            ELSE Cursor_prev_leaf_of(m, stack, stack_index - 1)
       ELSE rightmost_leaf(m, children(m, f.tree)[f.index])

\* Cursor::prev -> [panic, c]
Cursor_prev(m, c) ==
    IF ~c.did_seek THEN [panic |-> TRUE, c |-> c]
    ELSE LET c1 == IF c.stack = << >> /\ c.prev_leaf # Null
                   THEN Cursor_seek_to_last_item(
                            m, [c EXCEPT !.summary = SummaryDefault], c.tree)
                   ELSE Cursor_prev_loop(m, c)
         IN [panic |-> FALSE,
             c |-> [c1 EXCEPT !.prev_leaf =
                        IF c1.stack = << >> THEN Null
                        ELSE Cursor_prev_leaf_of(m, c1.stack, Len(c1.stack))]]

\* A variant of the test that ignores the bias.
consumes_strict(pos, subtree_end, bias) == pos > subtree_end

\* A variant of the test that treats every bias as Right.
consumes_tie(pos, subtree_end, bias) == pos >= subtree_end

\* the test of seek_and_slice: the subtree ending at subtree_end lies wholly
\* before pos
consumes(pos, subtree_end, bias) ==
    pos > subtree_end \/ (pos = subtree_end /\ bias = Right)

\* A variant of slice_push that leaves the slice as it is.
slice_skip(m, slice, subtree) == [m |-> m, self |-> slice]

\* slice.as_mut().map(|slice| slice.push_tree(subtree.clone())) -> [m, self]
slice_push(m, slice, subtree) ==
    IF slice = Null THEN [m |-> m, self |-> Null]
    ELSE push_tree(ArcClone(m, subtree), slice, subtree)

\* Phase A, inner loop: the children of the top frame from its index on
\* -> [m, c, slice, cur_subtree]
RECURSIVE seek_unwind_children(_, _, _, _, _, _)
seek_unwind_children(m, c, slice, D, pos, bias) ==
    LET n == Len(c.stack)
        top == c.stack[n]
    IN IF top.index < Len(children(m, top.tree))
       THEN LET subtree == children(m, top.tree)[top.index + 1]
                subtree_end == from_summary(D, c.summary)
                               + from_summary(D, summary(m, subtree))
            IN IF consumes(pos, subtree_end, bias)
               THEN Let(slice_push(m, slice, subtree), LAMBDA p :
                      seek_unwind_children(
                          p.m,
                          [c EXCEPT !.summary = add_assign(@, summary(m, subtree)),
                                    !.prev_leaf = rightmost_leaf(m, subtree),
                                    !.stack[n].index = top.index + 1],
                          p.self, D, pos, bias))
               ELSE [m |-> m, c |-> c, slice |-> slice, cur_subtree |-> subtree]
       ELSE [m |-> m, c |-> c, slice |-> slice, cur_subtree |-> Null]

\* A variant of resume_index that stays on the child the cursor came up from.
resume_same(prev_height, index) == index

\* if prev_subtree.height() > 1 { *index += 1 }: the child the cursor came up
\* from is done
resume_index(prev_height, index) == IF prev_height > 1 THEN index + 1 ELSE index

\* Phase A, outer loop: up the stack until a subtree that holds pos is found
RECURSIVE seek_unwind(_, _, _, _, _, _)
seek_unwind(m, c, slice, D, pos, bias) ==
    IF Len(c.stack) = 0
    THEN [m |-> m, c |-> c, slice |-> slice, cur_subtree |-> Null]
    ELSE LET n == Len(c.stack)
             c1 == [c EXCEPT !.stack[n].index =
                               resume_index(height(m, c.stack[n].tree), @)]
         IN Let(seek_unwind_children(m, c1, slice, D, pos, bias), LAMBDA r :
              IF r.cur_subtree # Null THEN r
              ELSE seek_unwind(r.m, [r.c EXCEPT !.stack = SubSeq(@, 1, n - 1)],
                               r.slice, D, pos, bias))

\* Phase B -> [m, c, slice]
RECURSIVE seek_descend(_, _, _, _, _, _, _), seek_descend_children(_, _, _, _, _, _, _, _)
seek_descend(m, c, slice, subtree, D, pos, bias) ==
    LET subtree_end == from_summary(D, c.summary) + from_summary(D, summary(m, subtree))
    IN IF ~IsLeaf(m, subtree)
       THEN IF consumes(pos, subtree_end, bias)
            THEN Let(slice_push(m, slice, subtree), LAMBDA p :
                   [m |-> p.m,
                    c |-> [c EXCEPT !.summary = add_assign(@, summary(m, subtree)),
                                    !.prev_leaf = rightmost_leaf(m, subtree)],
                    slice |-> p.self])
            ELSE seek_descend_children(m, c, slice, subtree, 0, D, pos, bias)
       ELSE IF consumes(pos, subtree_end, bias)
            THEN Let(slice_push(m, slice, subtree), LAMBDA p :
                   [m |-> p.m,
                    c |-> [c EXCEPT !.prev_leaf = subtree,
                                    !.summary = add_assign(@, summary(m, subtree))],
                    slice |-> p.self])
            ELSE [m |-> m, c |-> c, slice |-> slice]

\* for (index, child) in children.iter().enumerate()
seek_descend_children(m, c, slice, subtree, index, D, pos, bias) ==
    IF index >= Len(children(m, subtree)) THEN [m |-> m, c |-> c, slice |-> slice]
    ELSE LET child == children(m, subtree)[index + 1]
             child_end == from_summary(D, c.summary) + from_summary(D, summary(m, child))
         IN IF consumes(pos, child_end, bias)
            THEN Let(slice_push(m, slice, child), LAMBDA p :
                   seek_descend_children(
                       p.m,
                       [c EXCEPT !.summary = add_assign(@, summary(m, child)),
                                 !.prev_leaf = rightmost_leaf(m, child)],
                       p.self, subtree, index + 1, D, pos, bias))
            ELSE seek_descend(
                     m, [c EXCEPT !.stack = Append(@, Frame(subtree, index, c.summary))],
                     slice, child, D, pos, bias)

\* A variant of seeks_backwards without the assertion.
unasserted(c, D, pos) == FALSE

\* debug_assert!(*pos >= D::from_summary(&self.summary)) fails
seeks_backwards(c, D, pos) == ~(pos >= from_summary(D, c.summary))

\* Cursor::seek_and_slice -> [panic, m, c, slice]; slice = Null is None.
\* The debug assertion rejects a position before the cursor.
seek_and_slice(m, c, D, pos, bias, slice) ==
    IF c.did_seek
    THEN IF seeks_backwards(c, D, pos)
         THEN [panic |-> TRUE, m |-> m, c |-> c, slice |-> slice]
         ELSE Let(seek_unwind(m, c, slice, D, pos, bias), LAMBDA a :
                IF a.cur_subtree = Null
                THEN [panic |-> FALSE, m |-> a.m, c |-> a.c, slice |-> a.slice]
                ELSE Let(seek_descend(a.m, a.c, a.slice, a.cur_subtree, D, pos, bias),
                         LAMBDA b :
                           [panic |-> FALSE, m |-> b.m, c |-> b.c, slice |-> b.slice]))
    ELSE Let(seek_descend(m, [Cursor_reset(c) EXCEPT !.did_seek = TRUE], slice, c.tree,
                          D, pos, bias),
             LAMBDA b : [panic |-> FALSE, m |-> b.m, c |-> b.c, slice |-> b.slice])

\* A variant of Cursor_seek that goes on from where the cursor stands.
Cursor_seek_onward(m, c, D, pos, bias) == seek_and_slice(m, c, D, pos, bias, Null)

\* Cursor::seek -> [panic, m, c, slice]
Cursor_seek(m, c, D, pos, bias) == seek_and_slice(m, Cursor_reset(c), D, pos, bias, Null)

\* Cursor::slice -> [panic, m, c, slice]; .slice is the prefix returned
Cursor_slice(m, c, D, end, bias) ==
    Let(new(m), LAMBDA prefix : seek_and_slice(prefix.m, c, D, end, bias, prefix.id))

\* ------------------------------------------------------------------------
\* Views used by the properties
\* ------------------------------------------------------------------------
\* the cells reachable from t through children (t included)
RECURSIVE Reach(_, _)
Reach(m, t) ==
    IF IsLeaf(m, t) THEN {t}
    ELSE {t} \cup UNION {Reach(m, children(m, t)[i]) : i \in 1..Len(children(m, t))}

\* the nodes below t
Below(m, t) == Reach(m, t) \ {t}

\* the tree under t as a value: what derived PartialEq compares
RECURSIVE Val(_, _)
Val(m, t) ==
    IF IsLeaf(m, t) THEN m.heap[t]
    ELSE [kind |-> "Internal",
          rightmost_leaf |-> IF m.heap[t].rightmost_leaf = Null THEN << >>
                             ELSE <<m.heap[m.heap[t].rightmost_leaf]>>,
          summary |-> summary(m, t),
          children |-> [i \in 1..Len(children(m, t)) |-> Val(m, children(m, t)[i])],
          height |-> m.heap[t].height]

\* the leaf reached through the last child at every level (Null if none)
RECURSIVE LastLeaf(_, _)
LastLeaf(m, t) ==
    IF IsLeaf(m, t) THEN t
    ELSE IF children(m, t) = << >> THEN Null
    ELSE LastLeaf(m, children(m, t)[Len(children(m, t))])

\* the left-to-right fold of summarize over a sequence of items
RECURSIVE FoldItems(_)
FoldItems(its) ==
    IF its = << >> THEN SummaryDefault
    ELSE add_assign(FoldItems(SubSeq(its, 1, Len(its) - 1)), summarize(its[Len(its)]))

\* Vec::splice(start..end, new_items) on the reference vector
VecSplice(v, start, end, new_items) ==
    SubSeq(v, 1, start) \o new_items \o SubSeq(v, end + 1, Len(v))

\* the number of items of v that begin before position x of dimension D:
\* the index in the reference vector that x stands for (where items have no
\* measure, the index of the first of those at x)
Before(v, D, x) ==
    Cardinality({i \in 1..Len(v) : from_summary(D, FoldItems(SubSeq(v, 1, i - 1))) < x})

\* ------------------------------------------------------------------------
\* State: two Tree handles over one heap, and the reference vectors
\* ------------------------------------------------------------------------
\*   mem     the heap of Arc cells
\*   tree    the two Tree handles t1, t2 (heap ids)
\*   ref     for each handle, the plain vector the same operations produce
\*   fresh   the next item handed to push / extend / splice
\*   ops     builder operations done so far; lim, the bounds of this run
\*   lastop  the builder operation that led to this state
\*   cur     the cursor on tree[1] (cur.tree = Null: no cursor exists)
\*   out     what the last cursor operation was and returned
\*   chain   the slices returned since the cursor was last positioned otherwise
\*   it      the iterator on tree[1] (it.tree = Null: no iterator exists)
\*   seen    what the calls of it.next() have returned so far
VARIABLES mem, tree, ref, fresh, ops, lim, lastop, cur, out, chain, it, seen

bvars == <<mem, tree, ref, fresh, ops, lim, lastop>>
ivars == <<it, seen>>
cvars == <<cur, out, chain, it, seen>>
vars == <<mem, tree, ref, fresh, ops, lim, lastop, cur, out, chain, it, seen>>

\* out: the last cursor operation; for a seek or a slice its dimension,
\* position and bias, and whether the cursor stood beyond that position
\* (a seek) or already at it (a slice), or for a reset whether the cursor
\* stood on an item with items behind it: back
Out(op, D, pos, bias, back) ==
    [op |-> op, D |-> D, pos |-> pos, bias |-> bias, back |-> back]

NoOut == Out("none", "Count", 0, Right, FALSE)

\* chain: what the cursor has handed out since it stood at item p.
\*   kind   "slices": got is the concatenation of the slices returned since;
\*          "roundtrip": a fresh cursor's slice(Count(end), Right), then the
\*          items read with item() before each next();
\*          "none": nothing yet
\*   first  the length of the first slice of a round trip
\*   segs   the non-empty slices so far (counted up to MaxSegs)
\*   clean  the cursor was positioned by seek, slice and next only
\*   steps  otherwise: the calls made since the first prev()
Chain(kind, p, got, first, segs) ==
    [kind |-> kind, p |-> p, got |-> got, first |-> first, segs |-> segs,
     clean |-> TRUE, steps |-> 0]

NoChain == Chain("none", 0, << >>, 0, 0)

Dirty(steps) == [NoChain EXCEPT !.clean = FALSE, !.steps = steps]

\* the backward walk: steps calls of prev() and nothing else since next()
\* left the cursor past the end (no frame on the stack, the last leaf behind)
Walk(steps) == [Dirty(steps) EXCEPT !.kind = "walk"]

\* the chain after one more call on a cursor that prev() has moved
AfterPrev == IF chain.clean THEN Dirty(0) ELSE Dirty(chain.steps + 1)

\* next, prev and slice are followed this far after a prev()
MayStep == chain.clean \/ chain.steps < MaxAfterPrev

Handles == {1, 2}

Other(h) == 3 - h

\* the items first, first+1, ... (k of them)
ItemsFrom(first, k) == [i \in 1..k |-> first + i - 1]

\* the bounds in force in a run: the number of operations, the longest
\* sequence, and whether the operations on one tree (splice, slice) are among
\* the operations
ShortLim == [ops |-> MaxOps, len |-> MaxLen, single |-> TRUE, snap |-> 0]
TallLim(single) == [ops |-> TallOps, len |-> 2 * TallLen, single |-> single, snap |-> 0]

\* the bounds of a run on a cloned tree; snap is the length of the snapshot
\* the two handles started from (0 in the other runs)
SnapLim(n) == [ops |-> MaxInterleave, len |-> 2 * SnapLen, single |-> TRUE, snap |-> n]

\* seen: the items the iterator has yielded, in order, and the number of
\* calls that returned None
Seen(got, nones) == [got |-> got, nones |-> nones]

\* A cursor and an iterator hold a shared borrow of the tree they were made
\* from, which is tree[1]: while either exists, the operations that need
\* tree[1] mutably are not possible.  The other tree is free, tree[1] can
\* still be read (cloned, sliced, iterated), and the borrow ends when the
\* cursor or iterator is dropped.
Borrowed(h) == h = 1 /\ (cur.tree # Null \/ it.tree # Null)

\* the record of an operation on handle h, taken in the state it starts from
Done(op, h, other_len, other_height, args) ==
    [op |-> op, h |-> h, self_len |-> Len(ref[h]), self_height |-> height(mem, tree[h]),
     other_len |-> other_len, other_height |-> other_height, args |-> args]

NoOp(op, args) ==
    [op |-> op, h |-> 0, self_len |-> 0, self_height |-> 0, other_len |-> 0,
     other_height |-> 0, args |-> args]

\* let mut t1 = Tree::new(); let mut t2 = Tree::new();
Init ==
    /\ \E a \in {new(EmptyMem)} :
          \E b \in {new(a.m)} :
             /\ mem = b.m
             /\ tree = <<a.id, b.id>>
    /\ ref = << << >>, << >> >>
    /\ fresh = 1
    /\ ops = 0
    /\ lim = ShortLim
    /\ lastop = NoOp("new", << >>)
    /\ cur = Cursor_new(Null)
    /\ out = NoOut
    /\ chain = NoChain
    /\ it = Iter_new(Null)
    /\ seen = Seen(<< >>, 0)

\* t1.extend(1..=n1); t2.extend(n1+1..=n1+n2): the start of a tall run
Build(n1, n2) ==
    /\ ~Borrowed(1) /\ ~Borrowed(2)
    /\ ops = 0 /\ lim = ShortLim /\ fresh = 1
    /\ n1 + n2 > 0
    /\ \E a1 \in {extend(Entered(mem), tree[1], ItemsFrom(1, n1))} :
          \E b1 \in {extend(a1.m, tree[2], ItemsFrom(n1 + 1, n2))} :
             /\ mem' = b1.m
             /\ tree' = <<a1.self, b1.self>>
    /\ ref' = <<ItemsFrom(1, n1), ItemsFrom(n1 + 1, n2)>>
    /\ fresh' = n1 + n2 + 1
    /\ lim' = TallLim(n2 = 0)
    /\ lastop' = NoOp("build", <<n1, n2>>)
    /\ UNCHANGED <<ops, cvars>>

\* tree[h].push(item)
Push(h) ==
    /\ ~Borrowed(h)
    /\ ops < lim.ops
    /\ Len(ref[h]) + 1 <= lim.len
    /\ \E r \in {push(Entered(mem), tree[h], fresh)} :
          /\ mem' = r.m
          /\ tree' = [tree EXCEPT ![h] = r.self]
    /\ ref' = [ref EXCEPT ![h] = Append(@, fresh)]
    /\ fresh' = fresh + 1
    /\ ops' = ops + 1
    /\ lastop' = Done("push", h, 1, 0, << >>)
    /\ UNCHANGED <<lim, cvars>>

\* tree[h] = Tree::from_item(item): the old value of the handle is dropped
FromItem(h) ==
    /\ ~Borrowed(h)
    /\ ops < lim.ops
    /\ \E r \in {from_item(Entered(mem), fresh)} :
          /\ mem' = ArcDrop(r.m, tree[h])
          /\ tree' = [tree EXCEPT ![h] = r.self]
    /\ ref' = [ref EXCEPT ![h] = <<fresh>>]
    /\ fresh' = fresh + 1
    /\ ops' = ops + 1
    /\ lastop' = Done("from_item", h, 1, 0, << >>)
    /\ UNCHANGED <<lim, cvars>>

\* tree[h].extend(items)
Extend(h, k) ==
    /\ ~Borrowed(h)
    /\ ops < lim.ops
    /\ Len(ref[h]) + k <= lim.len
    /\ \E r \in {extend(Entered(mem), tree[h], ItemsFrom(fresh, k))} :
          /\ mem' = r.m
          /\ tree' = [tree EXCEPT ![h] = r.self]
    /\ ref' = [ref EXCEPT ![h] = @ \o ItemsFrom(fresh, k)]
    /\ fresh' = fresh + k
    /\ ops' = ops + 1
    /\ lastop' = Done("extend", h, k, 0, << >>)
    /\ UNCHANGED <<lim, cvars>>

\* tree[h].push_tree(tree[g].clone()); g = h appends a tree to itself
PushTree(h, g) ==
    /\ ~Borrowed(h)
    /\ ops < lim.ops
    /\ Len(ref[h]) + Len(ref[g]) <= lim.len
    /\ \E r \in {push_tree(ArcClone(Entered(mem), tree[g]), tree[h], tree[g])} :
          /\ mem' = r.m
          /\ tree' = [tree EXCEPT ![h] = r.self]
    /\ ref' = [ref EXCEPT ![h] = @ \o ref[g]]
    /\ ops' = ops + 1
    /\ lastop' = Done("push_tree", h, Len(ref[g]), height(mem, tree[g]), <<g>>)
    /\ UNCHANGED <<fresh, lim, cvars>>

\* tree[h] = tree[Other(h)].clone(): the old value of the handle is dropped
Clone(h) ==
    /\ ~Borrowed(h)
    /\ ops < lim.ops
    /\ mem' = ArcDrop(ArcClone(Entered(mem), tree[Other(h)]), tree[h])
    /\ tree' = [tree EXCEPT ![h] = tree[Other(h)]]
    /\ ref' = [ref EXCEPT ![h] = ref[Other(h)]]
    /\ ops' = ops + 1
    /\ lastop' = Done("clone", h, Len(ref[Other(h)]), height(mem, tree[Other(h)]), << >>)
    /\ UNCHANGED <<fresh, lim, cvars>>

\* let mut t2 = t1.clone(), right after t1 was built: the start of a run in
\* which both handles are operated on
Snapshot ==
    /\ ~Borrowed(2)
    /\ ops = 0 /\ lastop.op = "build" /\ lim = TallLim(TRUE)
    /\ mem' = ArcDrop(ArcClone(Entered(mem), tree[1]), tree[2])
    /\ tree' = [tree EXCEPT ![2] = tree[1]]
    /\ ref' = [ref EXCEPT ![2] = ref[1]]
    /\ lim' = SnapLim(Len(ref[1]))
    /\ lastop' = Done("clone", 2, Len(ref[1]), height(mem, tree[1]), << >>)
    /\ UNCHANGED <<fresh, ops, cvars>>

\* tree[h].splice(&Count(start)..&Count(end), new_items)
Splice(h, D, start, end, k) ==
    /\ ~Borrowed(h)
    /\ ops < lim.ops /\ lim.single
    /\ Len(ref[h]) - (Before(ref[h], D, end) - Before(ref[h], D, start)) + k <= lim.len
    /\ \E r \in {splice(Entered(mem), tree[h], D, start, end, ItemsFrom(fresh, k))} :
          /\ mem' = r.m
          /\ tree' = [tree EXCEPT ![h] = r.self]
    /\ ref' = [ref EXCEPT ![h] = VecSplice(@, Before(@, D, start), Before(@, D, end),
                                          ItemsFrom(fresh, k))]
    /\ fresh' = fresh + k
    /\ ops' = ops + 1
    /\ lastop' = Done("splice", h, k, 0, <<start, end, D>>)
    /\ UNCHANGED <<lim, cvars>>

\* let mut c = tree[g].cursor(); (c.seek(&Count(start), Right);)
\* tree[h] = c.slice(&Count(end), bias), for g the other handle: the cursor
\* is fresh when start = -1.  The cursor is dropped, and so is the old value
\* of tree[h].  The reference vector of h becomes what the slice holds.
SliceInto(h, start, end, bias) ==
    /\ ~Borrowed(h)
    /\ ops < lim.ops /\ lim.single
    /\ \E c0 \in {Cursor_new(tree[Other(h)])} :
          \E c1 \in {IF start < 0 THEN c0
                      ELSE Cursor_seek(mem, c0, "Count", start, Right).c} :
             \E r \in {Cursor_slice(Entered(mem), c1, "Count", end, bias)} :
                /\ ~r.panic
                /\ mem' = ArcDrop(r.m, tree[h])
                /\ tree' = [tree EXCEPT ![h] = r.slice]
                /\ ref' = [ref EXCEPT ![h] = items(r.m, r.slice)]
    /\ ops' = ops + 1
    /\ lastop' = Done("slice", h, Len(ref[Other(h)]), height(mem, tree[Other(h)]),
                      <<start, end, bias>>)
    /\ UNCHANGED <<fresh, lim, cvars>>

Next ==
    \/ \E n1 \in 0..TallLen, n2 \in 0..TallLen : Build(n1, n2)
    \/ \E h \in Handles : Push(h)
    \/ \E h \in Handles : FromItem(h)
    \/ \E h \in Handles, k \in 0..MaxExtend : Extend(h, k)
    \/ \E h \in Handles, g \in Handles : PushTree(h, g)
    \/ \E h \in Handles : Clone(h)
    \/ \E h \in Handles :
          \E end \in 0..len(mem, tree[h], "Count"), k \in 0..MaxNew :
             \E start \in 0..end : Splice(h, "Count", start, end, k)
    \/ \E h \in Handles, bias \in SeekBias :
          \E end \in 0..len(mem, tree[Other(h)], "Count") :
             \E start \in (-1)..end : SliceInto(h, start, end, bias)

Spec == Init /\ [][Next]_vars

\* ------------------------------------------------------------------------
\* Snapshot runs: t1 is built, t2 = t1.clone(), and then push, extend,
\* push_tree and splice are applied through either handle in any order
\* ------------------------------------------------------------------------
\* the lengths of the snapshot: a full root of leaves, a tree of height 2 and
\* one of height 3
SnapLens == {MAX_CHILDREN, MAX_CHILDREN + MIN_CHILDREN, SnapLen}

\* the positions a splice starts at: every SnapStride-th one
SnapStarts(h) == {i \in 0..len(mem, tree[h], "Count") : i % SnapStride = 0}

NextSnapshot ==
    \/ \E n \in SnapLens : Build(n, 0)
    \/ Snapshot
    \/ lim.snap > 0 /\ \E h \in Handles : Push(h)
    \/ lim.snap > 0 /\ \E h \in Handles : Extend(h, MIN_CHILDREN)
    \/ lim.snap > 0 /\ \E h \in Handles, g \in Handles : PushTree(h, g)
    \/ lim.snap > 0 /\ \E h \in Handles :
          \E start \in SnapStarts(h), cut \in 0..SnapCut, k \in 0..SnapNew :
             /\ cut + k > 0
             /\ start + cut <= len(mem, tree[h], "Count")
             /\ Splice(h, "Count", start, start + cut, k)

SpecSnapshot == Init /\ [][NextSnapshot]_vars

\* ------------------------------------------------------------------------
\* Sanity of the heap model: every strong count is the number of handles
\* that point at the cell
\* ------------------------------------------------------------------------
RefsTo(m, roots, id) ==
    Cardinality({h \in DOMAIN roots : roots[h] = id})
    + Cardinality({p \in {q \in DOMAIN m.heap : m.heap[q].kind = "Internal"} :
                     m.heap[p].rightmost_leaf = id})
    + Cardinality({pc \in {qc \in (DOMAIN m.heap) \X (1..(2 * MAX_CHILDREN)) :
                              /\ m.heap[qc[1]].kind = "Internal"
                              /\ qc[2] <= Len(m.heap[qc[1]].children)} :
                     m.heap[pc[1]].children[pc[2]] = id})

CountsExact == \A id \in DOMAIN mem.heap : mem.rc[id] = RefsTo(mem, tree, id)

\* ------------------------------------------------------------------------
\* Cursor runs: one cursor on tree[1]
\* ------------------------------------------------------------------------
\* the positions a seek or slice is given: every count up to one past the
\* length; every sum of a prefix of the items, and one past each of them
\* (inside the next item when that is larger than 1, and past the total)
RECURSIVE PrefixSums(_)
PrefixSums(its) ==
    IF its = << >> THEN {0}
    ELSE PrefixSums(SubSeq(its, 1, Len(its) - 1)) \cup {FoldItems(its).sum}

Positions(D) ==
    IF D = "Count" THEN 0..(Len(ref[1]) + 1)
    ELSE PrefixSums(ref[1]) \cup {s + 1 : s \in PrefixSums(ref[1])}

\* let mut cursor = tree[1].cursor(), once tree[1] is built: t2, if it holds
\* anything, has been pushed onto it.  One cursor is followed, the one made
\* last: cursors only read the tree, so an earlier one that is still alive
\* has no part in what this one does.
CursorNew ==
    /\ Len(ref[2]) = 0 \/ ops > 0
    /\ cur' = Cursor_new(tree[1])
    /\ out' = Out("new", "Count", 0, Right, FALSE)
    /\ chain' = NoChain
    /\ lastop' = NoOp("cursor", << >>)
    /\ UNCHANGED <<mem, tree, ref, fresh, ops, lim, ivars>>

\* cursor.reset()
Reset ==
    /\ cur.tree # Null
    /\ cur' = Cursor_reset(cur)
    /\ out' = Out("reset", "Count", 0, Right,
                  cur.did_seek /\ cur.stack # << >> /\ cur.prev_leaf # Null)
    /\ chain' = NoChain
    /\ UNCHANGED <<bvars, ivars>>

\* cursor.seek(&D(pos), bias)
Seek(D, pos, bias) ==
    /\ cur.tree # Null
    /\ \E r \in {Cursor_seek(Entered(mem), cur, D, pos, bias)} :
          /\ ~r.panic
          /\ cur' = r.c
          /\ mem' = r.m
          /\ chain' = Chain("none", Cursor_start(r.c, "Count"), << >>, 0, 0)
    /\ out' = Out("seek", D, pos, bias, pos < Cursor_start(cur, D))
    /\ UNCHANGED <<tree, ref, fresh, ops, lim, lastop, ivars>>

\* let s = cursor.slice(&D(end), bias); its items are read and s is dropped.
\* The call is made with end at or after the cursor.  The returned tree is
\* dropped at once, and the record of building it with it.
Slice(D, end, bias) ==
    /\ cur.tree # Null /\ MayStep
    /\ cur.did_seek => end >= Cursor_start(cur, D)
    /\ \E r \in {Cursor_slice(Entered(mem), cur, D, end, bias)} :
          /\ ~r.panic
          /\ cur' = r.c
          /\ mem' = ArcDrop(Entered(r.m), r.slice)
          /\ \E its \in {items(r.m, r.slice)} :
                LET some == IF its = << >> THEN 0 ELSE 1
                IN chain' =
                     IF ~chain.clean THEN AfterPrev
                     ELSE IF ~cur.did_seek /\ D = "Count" /\ bias = Right
                     THEN Chain("roundtrip", 0, its, Len(its), some)
                     ELSE IF chain.kind = "roundtrip"
                     THEN Chain("slices", Cursor_start(cur, "Count"), its, 0, some)
                     ELSE Chain("slices", chain.p, chain.got \o its, 0,
                                IF chain.segs + some > MaxSegs THEN MaxSegs
                                ELSE chain.segs + some)
    /\ out' = Out("slice", D, end, bias, cur.did_seek /\ end <= Cursor_start(cur, D))
    /\ UNCHANGED <<tree, ref, fresh, ops, lim, lastop, ivars>>

\* let x = cursor.item(); cursor.next()
CNext ==
    /\ cur.tree # Null /\ MayStep
    /\ cur.did_seek
    /\ \E r \in {Cursor_next(mem, cur)} :
          /\ ~r.panic
          /\ cur' = r.c
          /\ chain' =
               IF ~chain.clean THEN AfterPrev
               ELSE IF chain.kind = "roundtrip"
               THEN [chain EXCEPT !.got = @ \o Cursor_item(mem, cur).value]
               ELSE Chain("none", Cursor_start(r.c, "Count"), << >>, 0, 0)
    /\ out' = Out("next", "Count", 0, Right, FALSE)
    /\ UNCHANGED <<bvars, ivars>>

\* cursor.prev(); a backward walk from past the end is followed all the way
CPrev ==
    /\ cur.tree # Null
    /\ \/ MayStep
       \/ chain.kind = "walk" /\ chain.steps <= Len(ref[1])
       \/ out.op = "next" /\ cur.stack = << >> /\ cur.prev_leaf # Null
    /\ cur.did_seek
    /\ \E r \in {Cursor_prev(mem, cur)} :
          /\ ~r.panic
          /\ cur' = r.c
    /\ chain' = IF out.op = "next" /\ cur.stack = << >> /\ cur.prev_leaf # Null
                 THEN Walk(1)
                 ELSE IF chain.kind = "walk" THEN Walk(chain.steps + 1)
                 ELSE AfterPrev
    /\ out' = Out("prev", "Count", 0, Right, FALSE)
    /\ UNCHANGED <<bvars, ivars>>

\* the calls that assert did_seek
Asserting == {"item", "next", "prev"}

\* cursor.item(), cursor.next() or cursor.prev() with the assertion failing:
\* the call panics, and the cursor is dropped as the panic unwinds
Abort(op) ==
    /\ cur.tree # Null
    /\ \/ op = "item" /\ Cursor_item(mem, cur).panic
       \/ op = "next" /\ Cursor_next(mem, cur).panic
       \/ op = "prev" /\ Cursor_prev(mem, cur).panic
    /\ cur' = Cursor_new(Null)
    /\ out' = Out("abort", "Count", 0, Right, FALSE)
    /\ chain' = NoChain
    /\ UNCHANGED <<bvars, ivars>>

\* cursor.slice(&D(end), bias) with the assertion of seek_and_slice failing:
\* the call panics, and the cursor is dropped as the panic unwinds
AbortSlice(D, end, bias) ==
    /\ cur.tree # Null
    /\ cur.did_seek /\ end < Cursor_start(cur, D)
    /\ Cursor_slice(mem, cur, D, end, bias).panic
    /\ cur' = Cursor_new(Null)
    /\ out' = Out("abort", D, end, bias, TRUE)
    /\ chain' = NoChain
    /\ UNCHANGED <<bvars, ivars>>

\* drop(cursor): the borrow of tree[1] ends
CursorDrop ==
    /\ cur.tree # Null
    /\ cur' = Cursor_new(Null)
    /\ out' = NoOut
    /\ chain' = NoChain
    /\ UNCHANGED <<bvars, ivars>>

NextCursor ==
    \/ \E n1 \in 0..CurLen, n2 \in 0..CurLen :
          /\ (n2 = 0 /\ n1 <= MaxLen) \/ (n1 = CurHead /\ n1 + n2 = CurLen)
          /\ Build(n1, n2)
    \/ Len(ref[2]) > 0 /\ PushTree(1, 2)
    \/ CursorNew
    \/ CursorDrop
    \/ Reset
    \/ \E D \in Dimensions, bias \in SeekBias : \E pos \in Positions(D) : Seek(D, pos, bias)
    \/ \E D \in Dimensions, bias \in SeekBias : \E end \in Positions(D) : Slice(D, end, bias)
    \/ CNext
    \/ CPrev
    \/ \E op \in Asserting : Abort(op)
    \/ \E D \in Dimensions, bias \in SeekBias :
          \E end \in Positions(D) : AbortSlice(D, end, bias)

SpecCursor == Init /\ [][NextCursor]_vars

\* ------------------------------------------------------------------------
\* Subsequence runs: tree[1] holds items of which a run has the value 0, and
\* so no measure in the Sum dimension; a range of it is appended to a new
\* tree, which becomes tree[2]
\* ------------------------------------------------------------------------
\* the items 1..n with those at a..b replaced by 0
ZeroRun(n, a, b) == [i \in 1..n |-> IF a <= i /\ i <= b THEN 0 ELSE i]

\* t1.extend(items)
BuildZero(n, a, b) ==
    /\ ~Borrowed(1)
    /\ ops = 0 /\ lim = ShortLim /\ fresh = 1
    /\ \E a1 \in {extend(Entered(mem), tree[1], ZeroRun(n, a, b))} :
          /\ mem' = a1.m
          /\ tree' = [tree EXCEPT ![1] = a1.self]
    /\ ref' = [ref EXCEPT ![1] = ZeroRun(n, a, b)]
    /\ fresh' = n + 1
    /\ lim' = TallLim(TRUE)
    /\ lastop' = NoOp("build", <<n, a, b>>)
    /\ UNCHANGED <<ops, cvars>>

\* let mut result = Tree::new();
\* tree[1].append_subsequence(&mut result, &D(start), &D(end)); tree[2] = result
AppendSubsequence(D, start, end) ==
    /\ ~Borrowed(2)
    /\ ops < lim.ops
    /\ \E r0 \in {new(Entered(mem))} :
          \E r \in {append_subsequence(r0.m, tree[1], r0.id, D, start, end)} :
             /\ mem' = ArcDrop(r.m, tree[2])
             /\ tree' = [tree EXCEPT ![2] = r.self]
             /\ ref' = [ref EXCEPT ![2] = items(r.m, r.self)]
    /\ ops' = ops + 1
    /\ lastop' = Done("append_subsequence", 2, Len(ref[1]), height(mem, tree[1]),
                      <<start, end, D>>)
    /\ UNCHANGED <<fresh, lim, cvars>>

NextSubsequence ==
    \/ \E n \in 1..SubLen : \E a \in 1..n : \E b \in a..n : BuildZero(n, a, b)
    \/ \E n \in 0..SubLen : BuildZero(n, 1, 0)
    \/ \E D \in Dimensions :
          \E end \in 0..(len(mem, tree[1], D) + 1) :
             \E start \in 0..end : AppendSubsequence(D, start, end)

SpecSubsequence == Init /\ [][NextSubsequence]_vars

\* ------------------------------------------------------------------------
\* Splice runs: tree[1], with or without items of value 0, spliced at any
\* bounds, in either dimension
\* ------------------------------------------------------------------------
\* the bounds a splice is given: every boundary between two items, and up to
\* MaxBeyond past the length
Bounds(D) ==
    (IF D = "Count" THEN 0..Len(ref[1]) ELSE PrefixSums(ref[1]))
    \cup {len(mem, tree[1], D) + d : d \in 1..MaxBeyond}

NextSplice ==
    \/ \E n1 \in 0..TallLen : Build(n1, 0)
    \/ \E n \in 1..SubLen : \E a \in 1..n : \E b \in a..n : BuildZero(n, a, b)
    \/ FromItem(1)
    \/ \E D \in Dimensions, k \in 0..MaxNew :
          \E end \in Bounds(D) :
             \E start \in {s \in Bounds(D) : s <= end} : Splice(1, D, start, end, k)

SpecSplice == Init /\ [][NextSplice]_vars

\* ------------------------------------------------------------------------
\* Iterator runs: one iterator on tree[1]
\* ------------------------------------------------------------------------
\* let mut iter = tree[1].iter(); one iterator is followed, the one made last
IterNew ==
    /\ it' = Iter_new(tree[1])
    /\ seen' = Seen(<< >>, 0)
    /\ lastop' = NoOp("iter", << >>)
    /\ UNCHANGED <<mem, tree, ref, fresh, ops, lim, cur, out, chain>>

\* let x = iter.next(); the calls go on MaxNones times after the first None
IterNext ==
    /\ it.tree # Null
    /\ seen.nones <= MaxNones
    /\ \E r \in {Iter_next(mem, it)} :
          /\ it' = r.it
          /\ seen' = IF r.item = None THEN Seen(seen.got, seen.nones + 1)
                     ELSE Seen(seen.got \o r.item, seen.nones)
    /\ UNCHANGED <<bvars, cur, out, chain>>

\* drop(iter): the borrow of tree[1] ends
IterDrop ==
    /\ it.tree # Null
    /\ it' = Iter_new(Null)
    /\ seen' = Seen(<< >>, 0)
    /\ UNCHANGED <<bvars, cur, out, chain>>

\* the trees iterated over: built by extend, from one item, by push_tree and
\* by splice
NextIter ==
    \/ \E n1 \in 0..TallLen, n2 \in 0..TallLen : Build(n1, n2)
    \/ FromItem(1)
    \/ \E g \in Handles : PushTree(1, g)
    \/ \E end \in 0..len(mem, tree[1], "Count"), k \in 0..MaxNew :
          \E start \in 0..end : Splice(1, "Count", start, end, k)
    \/ IterNew
    \/ IterNext
    \/ IterDrop

SpecIter == Init /\ [][NextIter]_vars



\* ------------------------------------------------------------------------
\* Views of a tree that do not go through the caches or the iterator
\* ------------------------------------------------------------------------
\* the values of the leaves under t, left to right
RECURSIVE Flat(_, _), FlatAll(_, _)
Flat(m, t) == IF IsLeaf(m, t) THEN <<value(m, t)>> ELSE FlatAll(m, children(m, t))

FlatAll(m, ch) ==
    IF ch = << >> THEN << >> ELSE Flat(m, Head(ch)) \o FlatAll(m, Tail(ch))

\* the depths (root = 0) at which the leaves under t lie
RECURSIVE LeafDepths(_, _)
LeafDepths(m, t) ==
    IF IsLeaf(m, t) THEN {0}
    ELSE UNION {{d + 1 : d \in LeafDepths(m, children(m, t)[i])} :
                  i \in 1..Len(children(m, t))}

Internals(m, s) == {n \in s : ~IsLeaf(m, n)}

\* the two handles hold different sequences and share an internal node
SharedInternal ==
    /\ tree[1] # tree[2]
    /\ Internals(mem, Reach(mem, tree[1]) \cap Reach(mem, tree[2])) # {}

\* ------------------------------------------------------------------------
\* Properties of the builder (specification Spec)
\* ------------------------------------------------------------------------

\* C1: after any sequence of extend and splice (Count dimension) calls, the
\* items of a tree, read through the iterator, are the vector that the same
\* appends and Vec::splice calls produce.
C1_SpliceMatchesVec == \A h \in Handles : items(mem, tree[h]) = ref[h]

\* a splice strictly inside a tree of height 3 that removes and inserts has run
C1_Witness ==
    /\ lastop.op = "splice"
    /\ lastop.self_height >= 3
    /\ 0 < lastop.args[1] /\ lastop.args[1] < lastop.args[2]
    /\ lastop.args[2] < lastop.self_len
    /\ lastop.other_len = MaxNew
    /\ items(mem, tree[lastop.h]) = ref[lastop.h]

\* C2: a.push_tree(b) makes the items of a its former items followed by the
\* items of b, whatever the heights of the two trees; when b is empty, a is
\* left exactly as it was.
C2_PushTreeConcat ==
    [][lastop'.op = "push_tree" =>
         LET h == lastop'.h
             g == lastop'.args[1]
         IN /\ items(mem', tree'[h]) = items(mem, tree[h]) \o items(mem, tree[g])
            /\ is_empty(mem, tree[g]) => Val(mem', tree'[h]) = Val(mem, tree[h])]_vars

\* a tree of height 3 was pushed onto a shorter tree that was not empty
C2_Witness ==
    /\ lastop.op = "push_tree"
    /\ lastop.other_height = 3 /\ lastop.self_height < 3
    /\ lastop.self_len > 0
    /\ Len(ref[lastop.h]) = lastop.self_len + lastop.other_len

\* an empty tree was pushed onto a tree of height 2
C2_WitnessEmpty ==
    /\ lastop.op = "push_tree"
    /\ lastop.other_len = 0 /\ lastop.self_height = 2

\* what push, extend, push_tree or splice, with the arguments of the step
\* just taken, makes of tree[h] when no other handle exists -> [m, self].
\* The tree given to push_tree is a clone of tree[h] itself, or the value of
\* the other handle moved into the call.
Alone(h) ==
    LET solo == ArcDrop(mem, tree[Other(h)])
        new_items == ItemsFrom(fresh, lastop'.other_len)
    IN IF lastop'.op = "push" THEN push(solo, tree[h], fresh)
       ELSE IF lastop'.op = "extend" THEN extend(solo, tree[h], new_items)
       ELSE IF lastop'.op = "push_tree"
       THEN IF lastop'.args[1] = h
            THEN push_tree(ArcClone(solo, tree[h]), tree[h], tree[h])
            ELSE push_tree(mem, tree[h], tree[Other(h)])
       ELSE splice(solo, tree[h], lastop'.args[3], lastop'.args[1], lastop'.args[2], new_items)

\* C3: with t2 a clone of t1, in every interleaving of push, push_tree,
\* extend and splice through the two handles, an operation through one handle
\* leaves the tree of the other exactly as it was: its items, and every node,
\* summary and cache reachable from it.  The handle operated on holds the
\* sequence its own operations give, and its tree (items, summaries, nodes)
\* is the very tree the operation builds when the other handle does not
\* exist.
C3_SnapshotIsolation ==
    [][lastop'.h # 0 =>
         LET h == lastop'.h
             o == Other(h)
         IN /\ Val(mem', tree'[o]) = Val(mem, tree[o])
            /\ items(mem', tree'[o]) = items(mem, tree[o])
            /\ lastop'.op # "slice" => items(mem', tree'[h]) = ref'[h]
            /\ lastop'.op \in {"push", "extend", "push_tree", "splice"} =>
                  \A r \in {Alone(h)} : Val(mem', tree'[h]) = Val(r.m, r.self)]_vars

\* both handles have been operated on since t2 was cloned from t1
BothOperated ==
    /\ lim.snap > 0 /\ ops = MaxInterleave
    /\ ref[1] # ItemsFrom(1, lim.snap) /\ ref[2] # ItemsFrom(1, lim.snap)
    /\ ref[1] # ref[2]

\* the last of the operations on the two clones of a tree of height 3 was a
\* splice, and the handles still share internal nodes
C3_Witness ==
    /\ BothOperated /\ lim.snap = SnapLen
    /\ lastop.op = "splice"
    /\ SharedInternal
\* the last one was a push that split the root, after the other handle had
\* been operated on
C3_WitnessSplit ==
    /\ BothOperated
    /\ lastop.op = "push"
    /\ height(mem, tree[lastop.h]) = lastop.self_height + 1
    /\ SharedInternal
\* the last one was a push_tree of the other handle's tree, itself changed
\* since the clone
C3_WitnessPushTree ==
    /\ BothOperated /\ lim.snap = SnapLen
    /\ lastop.op = "push_tree" /\ lastop.args = <<Other(lastop.h)>>

\* C4: the root has at most MAX_CHILDREN children and every internal node
\* below the root has between MIN_CHILDREN and MAX_CHILDREN children, in
\* every tree built by new, from_item, push, push_tree, extend, splice and
\* Cursor::slice.
C4_ChildCounts ==
    \A h \in Handles :
       /\ Len(children(mem, tree[h])) <= MAX_CHILDREN
       /\ \A n \in Internals(mem, Below(mem, tree[h])) :
             /\ Len(children(mem, n)) >= MIN_CHILDREN
             /\ Len(children(mem, n)) <= MAX_CHILDREN

\* a tree with a single item (an underflowing root) was pushed onto a tree of
\* height 2 or more
C4_Witness ==
    /\ lastop.op = "push_tree"
    /\ lastop.other_len = 1 /\ lastop.self_height >= 2
    /\ Internals(mem, Below(mem, tree[lastop.h])) # {}

\* a slice that starts and ends inside a tree of height 3 was built
C4_WitnessSlice ==
    /\ lastop.op = "slice"
    /\ lastop.other_height = 3
    /\ lastop.args[1] > 0 /\ lastop.args[2] < lastop.other_len
    /\ height(mem, tree[lastop.h]) >= 2

\* C5: every child of an internal node has the node's height minus one, an
\* empty root has height 1, and all leaves of a tree lie at the same depth.
C5_Heights ==
    \A h \in Handles :
       /\ \A n \in Internals(mem, Reach(mem, tree[h])) :
             /\ children(mem, n) = << >> => height(mem, n) = 1
             /\ \A i \in 1..Len(children(mem, n)) :
                   height(mem, children(mem, n)[i]) = height(mem, n) - 1
       /\ LeafDepths(mem, tree[h]) \subseteq {height(mem, tree[h])}

\* a tree of height 3 whose last operation changed it
C5_Witness ==
    /\ lastop.op \in {"push", "push_tree", "splice", "slice", "extend"}
    /\ height(mem, tree[lastop.h]) = 3
    /\ LeafDepths(mem, tree[lastop.h]) = {3}

\* C6: the cached summary of every node is the left-to-right fold of the
\* summaries of the items under it, in order.
C6_Summaries ==
    \A h \in Handles :
       \A n \in Reach(mem, tree[h]) : summary(mem, n) = FoldItems(Flat(mem, n))

\* a node was split or a tree respliced, and the tree holds items out of order
C6_Witness ==
    /\ lastop.op \in {"splice", "push_tree"}
    /\ height(mem, tree[lastop.h]) >= 2
    /\ \E i \in 1..(Len(ref[lastop.h]) - 1) : ref[lastop.h][i] > ref[lastop.h][i + 1]
    /\ summary(mem, tree[lastop.h]).seq = ref[lastop.h]

\* C7: the rightmost_leaf cache of every internal node is the leaf reached
\* through the last child at each level (none for an empty tree), so last()
\* is the last item of the sequence and is None exactly for the empty tree.
C7_RightmostLeaf ==
    \A h \in Handles :
       /\ \A n \in Internals(mem, Reach(mem, tree[h])) :
             rightmost_leaf(mem, n) = LastLeaf(mem, n)
       /\ last(mem, tree[h]) =
             IF Flat(mem, tree[h]) = << >> THEN None
             ELSE Some(Flat(mem, tree[h])[Len(Flat(mem, tree[h]))])
       /\ (last(mem, tree[h]) = None) = (Flat(mem, tree[h]) = << >>)

\* a tree of height 2 or more got a new last item
C7_Witness ==
    /\ lastop.op \in {"push", "push_tree", "splice"}
    /\ lastop.other_len > 0
    /\ height(mem, tree[lastop.h]) >= 2
    /\ last(mem, tree[lastop.h]) = Some(ref[lastop.h][Len(ref[lastop.h])])
    /\ last(mem, tree[lastop.h]) # last(mem, tree[Other(lastop.h)])

\* ------------------------------------------------------------------------
\* Properties of the cursor (specification SpecCursor)
\* ------------------------------------------------------------------------

\* C8: after seek(Count(i), Right) with i < len, from whatever state the
\* cursor was in, item() is the i-th item, prev_item() the one before it
\* (none when i = 0) and start::<Count>() is i; after seek(Count(len), Right)
\* item() is none and prev_item() is the last item.
C8_SeekCount ==
    (out.op = "seek" /\ out.D = "Count" /\ out.bias = Right /\ out.pos <= Len(ref[1])) =>
        LET i == out.pos
            n == Len(ref[1])
        IN /\ ~Cursor_item(mem, cur).panic
           /\ Cursor_item(mem, cur).value = IF i < n THEN Some(ref[1][i + 1]) ELSE None
           /\ Cursor_prev_item(mem, cur) = IF i = 0 THEN None ELSE Some(ref[1][i])
           /\ i < n => Cursor_start(cur, "Count") = i

\* a seek back to the inside of a tree of height 3
C8_Witness ==
    /\ out.op = "seek" /\ out.D = "Count" /\ out.bias = Right
    /\ out.back
    /\ 0 < out.pos /\ out.pos < Len(ref[1])
    /\ height(mem, tree[1]) = 3
    /\ Cursor_item(mem, cur).value = Some(ref[1][out.pos + 1])

\* C9: the items of the slice(Count(end), Right) of a fresh cursor, followed
\* by the items read with item() before each next(), are at every step a
\* prefix of the sequence, and the whole sequence once item() is none.
C9_RoundTrip ==
    chain.kind = "roundtrip" =>
        /\ Len(chain.got) <= Len(ref[1])
        /\ chain.got = SubSeq(ref[1], 1, Len(chain.got))
        /\ Cursor_item(mem, cur).value = None => chain.got = ref[1]

\* a round trip over a tree of height 3 has ended: the slice took some of the
\* items and next() stepped over the others
C9_Witness ==
    /\ chain.kind = "roundtrip"
    /\ out.op = "next"
    /\ Cursor_item(mem, cur).value = None
    /\ 0 < chain.first /\ chain.first < Len(ref[1])
    /\ height(mem, tree[1]) = 3
    /\ chain.got = ref[1]

\* C10: the slices returned since a cursor positioned by seek, slice or next
\* stood at item p are, concatenated, the items from p up to where the
\* cursor stands now, which is the item the next slice begins with; and
\* followed by slice(Count(len), Right) they are the items from p to the end.
C10_SliceChain ==
    (chain.clean /\ out.op = "slice") =>
        LET n == Len(ref[1])
            at == Cursor_start(cur, "Count")
        IN /\ chain.p <= at /\ at <= n
           /\ chain.got = SubSeq(ref[1], chain.p + 1, at)
           /\ at < n => Cursor_item(mem, cur).value = Some(ref[1][at + 1])
           /\ \A r \in {Cursor_slice(mem, cur, "Count", n, Right)} :
                 /\ ~r.panic
                 /\ chain.got \o items(r.m, r.slice) = SubSeq(ref[1], chain.p + 1, n)

\* two slices that returned items, the last with the Left bias, from inside a
\* tree of height 3 and not up to its end
C10_Witness ==
    /\ chain.clean /\ out.op = "slice" /\ out.bias = Left
    /\ chain.kind = "slices" /\ chain.segs = MaxSegs
    /\ chain.p > 0
    /\ Cursor_start(cur, "Count") < Len(ref[1])
    /\ height(mem, tree[1]) = 3

\* C11: on a tree of n > 0 items, the k-th prev() after next() has left the
\* cursor past the end stands on item n - k (counted from 0): item(),
\* prev_item(), start::<Count>() and start::<Sum>() are those of that index;
\* the (n+1)-th gives item() and prev_item() none and both starts zero.
C11_BackwardWalk ==
    (chain.kind = "walk" /\ Len(ref[1]) > 0) =>
        LET n == Len(ref[1])
            j == n - chain.steps
        IN /\ ~Cursor_item(mem, cur).panic
           /\ Cursor_item(mem, cur).value = IF j >= 0 THEN Some(ref[1][j + 1]) ELSE None
           /\ Cursor_prev_item(mem, cur) = IF j >= 1 THEN Some(ref[1][j]) ELSE None
           /\ Cursor_start(cur, "Count") = (IF j >= 0 THEN j ELSE 0)
           /\ Cursor_start(cur, "Sum") =
                 (IF j >= 0 THEN FoldItems(SubSeq(ref[1], 1, j)).sum ELSE 0)

\* a walk over a tree of height 3 has gone from past the end to before the
\* first item
C11_Witness ==
    /\ chain.kind = "walk"
    /\ chain.steps = Len(ref[1]) + 1
    /\ height(mem, tree[1]) = 3
    /\ Cursor_item(mem, cur).value = None
    /\ Cursor_prev_item(mem, cur) = None

\* the measure in dimension D of the first k items of tree[1]
Measure(D, k) == from_summary(D, FoldItems(SubSeq(ref[1], 1, k)))

\* C12: when pos is the measure of the first k >= 1 items (every item has a
\* positive measure), seek(pos, Left) leaves the cursor on item k-1, the
\* item that ends at pos, and seek(pos, Right) on item k (past the end when
\* k = len); a slice(pos, bias) by a cursor that seek, slice and next left
\* before pos stops at the same places: with Right the item ending at pos
\* is the last item handed out, with Left it is not handed out and is the
\* item the cursor stands on.
C12_Bias ==
    \A k \in 1..Len(ref[1]) :
       (out.op \in {"seek", "slice"} /\ out.pos = Measure(out.D, k)) =>
          LET n == Len(ref[1])
              landed == /\ Cursor_start(cur, "Count") = (IF out.bias = Left THEN k - 1 ELSE k)
                        /\ Cursor_item(mem, cur).value =
                              IF out.bias = Left THEN Some(ref[1][k])
                              ELSE IF k < n THEN Some(ref[1][k + 1]) ELSE None
          IN /\ out.op = "seek" => landed
             /\ (out.op = "slice" /\ chain.clean /\ ~out.back) =>
                   /\ landed
                   /\ out.bias = Right =>
                         /\ chain.got # << >>
                         /\ chain.got[Len(chain.got)] = ref[1][k]
                   /\ out.bias = Left =>
                         \/ chain.got = << >>
                         \/ chain.got[Len(chain.got)] # ref[1][k]

\* a slice with the Left bias, in the Sum dimension, by a cursor that had
\* moved, up to a boundary inside a tree of height 3
C12_Witness ==
    /\ out.op = "slice" /\ out.D = "Sum" /\ out.bias = Left /\ ~out.back
    /\ chain.clean /\ chain.kind = "slices" /\ chain.p > 0
    /\ chain.got # << >>
    /\ \E k \in 2..(Len(ref[1]) - 1) :
          /\ out.pos = Measure("Sum", k)
          /\ Cursor_item(mem, cur).value = Some(ref[1][k])
    /\ height(mem, tree[1]) = 3

\* C13: successive calls of the iterator's next() yield every item of the
\* tree exactly once, left to right, and then none: what has been yielded is
\* always a prefix of the tree's items, a call returns none only when all of
\* them have been yielded (on an empty tree, the first call), and nothing is
\* yielded after a none.
C13_IterOnce ==
    it.tree # Null =>
       /\ Len(seen.got) <= Len(ref[1])
       /\ seen.got = SubSeq(ref[1], 1, Len(seen.got))
       /\ seen.nones > 0 => seen.got = ref[1]

C13_Witness ==
    /\ it.tree # Null
    /\ height(mem, tree[1]) = 3
    /\ seen.nones = 2
    /\ seen.got = ref[1]

C13_WitnessEmpty ==
    /\ it.tree # Null
    /\ ref[1] = << >>
    /\ seen.nones = 2
    /\ seen.got = << >>

\* C14: on a cursor that has not sought (fresh, or after reset() from any
\* state) item(), next() and prev() abort, start::<D>() is the identity of D
\* and prev_item() is none; reset() leaves did_seek false, the stack empty,
\* no prev_leaf and the identity summary.
C14_Unsought ==
    (cur.tree # Null /\ (~cur.did_seek \/ out.op \in {"new", "reset"})) =>
       /\ cur = Cursor_new(cur.tree)
       /\ \A op \in Asserting : ENABLED Abort(op)
       /\ \A D \in Dimensions : Cursor_start(cur, D) = from_summary(D, SummaryDefault)
       /\ Cursor_prev_item(mem, cur) = None

C14_Witness ==
    /\ cur.tree # Null
    /\ out.op = "reset" /\ out.back
    /\ height(mem, tree[1]) = 3
    /\ Cursor_next(mem, cur).panic

\* the smaller of two positions
Clamp(x, length) == IF x > length THEN length ELSE x

\* every item of tree[1] has a measure in dimension D
Measurable(D) == \A i \in 1..Len(ref[1]) : from_summary(D, summarize(ref[1][i])) > 0

\* the step is a splice of tree[1] with a bound beyond its length, and leaves
\* the tree that the splice with each bound clamped to the length leaves
AsClamped ==
    (lastop'.op = "splice" /\ ops' = ops + 1) =>
       LET D == lastop'.args[3]
           length == len(mem, tree[1], D)
       IN lastop'.args[2] > length =>
             \A r \in {splice(mem, tree[1], D, Clamp(lastop'.args[1], length), length,
                               ItemsFrom(fresh, lastop'.other_len))} :
                Val(mem', tree'[1]) = Val(r.m, r.self)

\* C15: a splice with start <= end and a bound beyond the tree's length in
\* its dimension does not abort and leaves the same tree as the splice with
\* each bound clamped to the length.
C15_Clamped == [][AsClamped]_vars

\* What holds of every such splice: with start beyond the end it leaves the
\* whole tree followed by the new items, with end beyond the end the prefix up
\* to start followed by the new items and nothing after them; and when every
\* item of the tree has a measure in that dimension, it leaves the same tree
\* as the splice with each bound clamped to the length.
SpliceBeyondLength ==
    [][(lastop'.op = "splice" /\ ops' = ops + 1) =>
          LET D == lastop'.args[3]
              start == lastop'.args[1]
              end == lastop'.args[2]
              length == len(mem, tree[1], D)
              new_items == ItemsFrom(fresh, lastop'.other_len)
          IN (end > length) =>
                /\ start > length => items(mem', tree'[1]) = ref[1] \o new_items
                /\ \A r0 \in {new(mem)} :
                      \A r \in {append_subsequence(r0.m, tree[1], r0.id, D,
                                                   dim_default(D), start)} :
                         items(mem', tree'[1]) = items(r.m, r.self) \o new_items
                /\ Measurable(D) =>
                      /\ AsClamped
                      /\ items(mem', tree'[1]) =
                            SubSeq(ref[1], 1, Before(ref[1], D, start)) \o new_items]_vars

\* the cursor is past the end: no current item, and the last item behind it
PastEnd ==
    /\ Cursor_item(mem, cur).value = None
    /\ ref[1] # << >>
    /\ Cursor_prev_item(mem, cur) = Some(ref[1][Len(ref[1])])

\* C16: in every state reached by seek, slice, next and prev calls the
\* cursor's summary is the fold of the summaries of the items to the left of
\* its position: when item() is the j-th item the summary is that of the
\* first j items (so start::<Count>() is j), and past the end it is the
\* tree's total.
C16_Summary ==
    (cur.tree # Null /\ cur.did_seek) =>
       /\ \A j \in 0..(Len(ref[1]) - 1) :
             Cursor_item(mem, cur).value = Some(ref[1][j + 1]) =>
                /\ cur.summary = FoldItems(SubSeq(ref[1], 1, j))
                /\ Cursor_start(cur, "Count") = j
       /\ PastEnd => cur.summary = summary(mem, tree[1])

\* the summary of everything left of the node of frame n of the stack, the
\* stack being a path from the root: frame n + 1 holds child index of frame n
RECURSIVE NodeStart(_, _, _)
NodeStart(m, stack, n) ==
    IF n = 1 THEN SummaryDefault
    ELSE add_assign(NodeStart(m, stack, n - 1),
                    summarize_children(m, SubSeq(children(m, stack[n - 1].tree), 1,
                                                 stack[n - 1].index)))

\* the summary of everything left of child index of frame n
LeftOfChild(m, stack, n) ==
    add_assign(NodeStart(m, stack, n),
               summarize_children(m, SubSeq(children(m, stack[n].tree), 1, stack[n].index)))

\* C17: in every reachable state, every frame (node, index, snapshot) of the
\* cursor's stack has as its snapshot the summary accumulated to the left of
\* child index of its node, whichever operation pushed or advanced it.
C17_Snapshots ==
    cur.tree # Null =>
       \A n \in 1..Len(cur.stack) :
          cur.stack[n].summary = LeftOfChild(mem, cur.stack, n)

\* one next() from cursor c to cursor d: from item j, the one after the
\* start::<Count>() items to the left, to item j + 1, with item j behind and
\* its summary added; from the last item to past the end, with
\* the total as the summary; and no move where there is no current item
Stepped(c, d) ==
    /\ Cursor_item(mem, c).value # None =>
          \E j \in 1..Len(ref[1]) :
             /\ j = Cursor_start(c, "Count") + 1
             /\ Cursor_item(mem, c).value = Some(ref[1][j])
             /\ Cursor_prev_item(mem, d) = Some(ref[1][j])
             /\ d.summary = add_assign(c.summary, summarize(ref[1][j]))
             /\ Cursor_start(d, "Count") = j
             /\ Cursor_item(mem, d).value =
                   IF j < Len(ref[1]) THEN Some(ref[1][j + 1]) ELSE None
             /\ j = Len(ref[1]) => /\ d.stack = << >>
                                    /\ d.summary = summary(mem, tree[1])
    /\ Cursor_item(mem, c).value = None => d = c

\* C18: from a cursor that a seek or slice left on item j, each next() moves
\* to item j + 1 with prev_item() item j and start grown by the summary of
\* item j, also across internal nodes; the call on the last item leaves the
\* cursor past the end with no item, the last item behind and the tree's
\* total as start; a next() past the end changes nothing.
C18_Forward ==
    [][(cur.tree # Null /\ cur.did_seek /\ chain.clean) =>
          /\ (out'.op = "next" /\ (out.op # "next" \/ cur' # cur)) => Stepped(cur, cur')
          /\ Cursor_item(mem, cur).value = None => Cursor_next(mem, cur).c = cur]_vars

C18_Witness ==
    /\ out.op = "next" /\ chain.clean
    /\ Len(cur.stack) = 3
    /\ cur.stack[3].index = 0 /\ cur.stack[2].index = 0 /\ cur.stack[1].index > 0
    /\ cur.prev_leaf # Null
    /\ Cursor_start(cur, "Count") > 2

C18_WitnessEnd ==
    /\ out.op = "next" /\ chain.clean
    /\ height(mem, tree[1]) = 3
    /\ PastEnd
    /\ cur.summary = summary(mem, tree[1])

\* the items of v whose left-cumulative position p in dimension D satisfies
\* start <= p < end, in order
RECURSIVE InRange(_, _, _, _)
InRange(v, D, start, end) ==
    IF v = << >> THEN << >>
    ELSE LET front == SubSeq(v, 1, Len(v) - 1)
             p == from_summary(D, FoldItems(front))
         IN InRange(front, D, start, end)
            \o (IF start <= p /\ p < end THEN <<v[Len(v)]>> ELSE << >>)

\* C19: for either dimension, also with items of no measure in it, and every
\* start <= end, append_subsequence(result, start, end) appends to an empty
\* result exactly the leaves whose left-cumulative position p satisfies
\* start <= p < end, each once and in order: never a leaf with p = end.
C19_HalfOpen ==
    lastop.op = "append_subsequence" =>
       ref[2] = InRange(ref[1], lastop.args[3], lastop.args[1], lastop.args[2])

\* C20: the cursor state after seek(pos, bias) (stack, prev_leaf, summary,
\* did_seek) does not depend on the state the cursor was in, and is the state
\* in which slice(pos, bias) leaves a new cursor on the same tree.
C20_SeekFromAnywhere ==
    out.op = "seek" =>
       \A r \in {Cursor_slice(mem, Cursor_new(tree[1]), out.D, out.pos, out.bias)} :
          /\ ~r.panic
          /\ cur = r.c

C20_Witness ==
    /\ out.op = "seek" /\ out.back
    /\ out.D = "Sum" /\ out.bias = Left
    /\ height(mem, tree[1]) = 3
    /\ Len(cur.stack) = 3
    /\ cur.prev_leaf # Null

\* pos is the end, in dimension D, of no non-empty prefix of the items
OffBoundary(D, pos) == \A k \in 1..Len(ref[1]) : pos # Measure(D, k)

Opposite(bias) == IF bias = Left THEN Right ELSE Left

\* C21: away from the boundaries between items the bias does not matter: a
\* seek to a position that is the end of no non-empty prefix leaves the same
\* cursor state with either bias, and a slice up to such a position returns
\* the same items with either bias from the same cursor state.
BiasFree ==
    (out'.op \in {"seek", "slice"} /\ OffBoundary(out'.D, out'.pos)
     /\ (out' # out \/ cur' # cur)) =>
       /\ out'.op = "seek" =>
             cur' = Cursor_seek(mem, cur, out'.D, out'.pos, Opposite(out'.bias)).c
       /\ out'.op = "slice" =>
             \A a \in {Cursor_slice(mem, cur, out'.D, out'.pos, out'.bias)} :
                \A b \in {Cursor_slice(mem, cur, out'.D, out'.pos, Opposite(out'.bias))} :
                   /\ ~b.panic
                   /\ items(a.m, a.slice) = items(b.m, b.slice)

C21_BiasOffBoundary == [][BiasFree]_vars

\* What holds: the same, for every seek and for the slices of a cursor that
\* seek, slice and next alone have positioned.
BiasOffBoundaryForward == [][(out'.op = "seek" \/ chain.clean) => BiasFree]_vars

BiasOffBoundaryReached ==
    /\ out.op = "slice" /\ out.D = "Sum" /\ ~out.back /\ chain.clean
    /\ OffBoundary("Sum", out.pos)
    /\ out.pos < FoldItems(ref[1]).sum
    /\ chain.kind = "slices" /\ chain.p > 0 /\ chain.got # << >>
    /\ height(mem, tree[1]) = 3

\* C22: on a cursor that has sought, slice(end, bias) with end before
\* start::<D>() aborts, and does so with the cursor as it was and nothing in
\* the slice; with end at or after start it does not abort; and seek(pos,
\* bias) aborts for no pos.
C22_Backwards ==
    (cur.tree # Null /\ cur.did_seek) =>
       \A D \in Dimensions, bias \in SeekBias :
          \A pos \in Positions(D) :
             /\ ~Cursor_seek(mem, cur, D, pos, bias).panic
             /\ \A r \in {Cursor_slice(mem, cur, D, pos, bias)} :
                   /\ r.panic <=> pos < Cursor_start(cur, D)
                   /\ r.panic => /\ r.c = cur
                                  /\ items(r.m, r.slice) = << >>
                                  /\ ENABLED AbortSlice(D, pos, bias)

C22_Witness ==
    /\ out.op = "abort" /\ out.back
    /\ out.D = "Sum" /\ out.pos > 0
    /\ height(mem, tree[1]) = 3

\* ------------------------------------------------------------------------
\* Split rounding
\* ------------------------------------------------------------------------
\* ceil(k / 2)
HalfUp(k) == (k + 1) \div 2

SplitRounded(call) ==
    LET k == Len(call.all)
    IN IF k > MAX_CHILDREN
       THEN /\ k >= MAX_CHILDREN + 1 /\ k <= 2 * MAX_CHILDREN
            /\ call.split
            /\ call.kept = SubSeq(call.all, 1, HalfUp(k))
            /\ call.sibling = SubSeq(call.all, HalfUp(k) + 1, k)
            /\ Len(call.sibling) = k - HalfUp(k)
            /\ {Len(call.kept), Len(call.sibling)} \subseteq MIN_CHILDREN..MAX_CHILDREN
       ELSE /\ ~call.split
            /\ call.sibling = << >>
            /\ call.kept = call.all

\* C23: every append_children call of the last operation with
\* k = |children| + |new| > MAX_CHILDREN has k between 5 and 8, leaves self
\* the first ceil(k/2) children of the concatenation in order and returns a
\* sibling holding the other k - ceil(k/2) in order, both counts within
\* [MIN_CHILDREN, MAX_CHILDREN]; with k <= MAX_CHILDREN it returns no sibling
\* and self holds the concatenation.
C23_SplitRounding == \A i \in 1..Len(mem.calls) : SplitRounded(mem.calls[i])

\* an odd split (3 kept, 2 returned) below the root of a tree of height 3
C23_Witness ==
    /\ lastop.h \in Handles /\ height(mem, tree[lastop.h]) = 3
    /\ \E i \in 1..Len(mem.calls) :
          /\ Len(mem.calls[i].all) = MAX_CHILDREN + 1
          /\ mem.calls[i].split
          /\ Len(mem.calls[i].kept) = 3 /\ Len(mem.calls[i].sibling) = 2
\* the largest call: a full node given MAX_CHILDREN more
C23_WitnessFull ==
    \E i \in 1..Len(mem.calls) :
       /\ Len(mem.calls[i].all) = 2 * MAX_CHILDREN
       /\ Len(mem.calls[i].kept) = MAX_CHILDREN /\ Len(mem.calls[i].sibling) = MAX_CHILDREN
\* a call that fits: no sibling, several children added at once
C23_WitnessInPlace ==
    \E i \in 1..Len(mem.calls) :
       /\ ~mem.calls[i].split
       /\ Len(mem.calls[i].all) = MAX_CHILDREN
       /\ \E j \in 1..Len(mem.calls) : j # i /\ mem.calls[j].split

\* ------------------------------------------------------------------------
\* The previous item
\* ------------------------------------------------------------------------
\* the number of items to the left of the leaf the first n frames lead to
RECURSIVE LeavesLeft(_, _, _)
LeavesLeft(m, stack, n) ==
    IF n = 0 THEN 0
    ELSE LeavesLeft(m, stack, n - 1)
         + Len(FlatAll(m, SubSeq(children(m, stack[n].tree), 1, stack[n].index)))

\* the p-th item of the sequence, none for p = 0
ItemAt(p) == IF p = 0 THEN None ELSE Some(ref[1][p])

\* The item behind the position the call has left the cursor at.  On a leaf
\* it is the one before that leaf.  Off the items it is the last one when the
\* cursor ran off the end, none when prev() stepped off the front, and what
\* it was when next() or slice() found the cursor off the items already.
Behind ==
    IF cur'.stack # << >> THEN ItemAt(LeavesLeft(mem', cur'.stack, Len(cur'.stack)))
    ELSE IF out'.op = "prev" THEN None
    ELSE IF out'.op \in {"next", "slice"} /\ cur.tree # Null /\ cur.did_seek
            /\ cur.stack = << >>
    THEN Cursor_prev_item(mem, cur)
    ELSE ItemAt(Len(ref[1]))

PrevItemBehind ==
    (cur'.tree # Null /\ cur'.did_seek) => Cursor_prev_item(mem', cur') = Behind

PrevReturns ==
    (cur.tree # Null /\ cur.did_seek) =>
       \A r \in {Cursor_prev(mem, cur)} :
          /\ ~r.panic
          /\ Cursor_item(mem, r.c).value = Cursor_prev_item(mem, cur)

\* C24: in every state of a cursor that has sought, prev_item() is the item
\* just before the cursor's position (the last item past the end, none on the
\* first item and before the start), and prev() leaves item() equal to what
\* prev_item() was before the call, none included, from an item as from past
\* the end.
C24_PrevItem == [][PrevItemBehind]_vars /\ []PrevReturns

\* prev() from past the end of a tree of height 3 has gone back to the last
\* item
C24_Witness ==
    /\ out.op = "prev" /\ chain.kind = "walk" /\ chain.steps = 1
    /\ height(mem, tree[1]) = 3
    /\ Cursor_item(mem, cur).value = Some(ref[1][Len(ref[1])])
    /\ Cursor_prev_item(mem, cur) = Some(ref[1][Len(ref[1]) - 1])
\* prev() from the first item: nothing before it, and no item after the call
C24_WitnessFront ==
    /\ out.op = "prev" /\ cur.did_seek /\ cur.stack = << >>
    /\ Len(ref[1]) > MAX_CHILDREN
    /\ Cursor_item(mem, cur).value = None /\ Cursor_prev_item(mem, cur) = None
\* prev() after a seek into the middle has crossed into the node to the left
C24_WitnessAcross ==
    /\ out.op = "prev" /\ ~chain.clean /\ chain.steps = 0
    /\ Len(cur.stack) = 2
    /\ cur.stack[2].index = Len(children(mem, cur.stack[2].tree)) - 1
    /\ cur.stack[1].index > 0 /\ cur.prev_leaf # Null

\* ------------------------------------------------------------------------
\* The stack
\* ------------------------------------------------------------------------
\* the frames lead from the cursor's tree to the parent of a leaf
PathToLeafParent(m, c) ==
    LET n == Len(c.stack)
    IN /\ c.stack[1].tree = c.tree
       /\ \A i \in 1..n :
             /\ ~IsLeaf(m, c.stack[i].tree)
             /\ c.stack[i].index >= 0
             /\ c.stack[i].index < Len(children(m, c.stack[i].tree))
       /\ \A i \in 2..n :
             c.stack[i].tree = children(m, c.stack[i - 1].tree)[c.stack[i - 1].index + 1]
       /\ height(m, c.stack[n].tree) = 1
       /\ IsLeaf(m, children(m, c.stack[n].tree)[c.stack[n].index + 1])

\* C25: in every state of a cursor that has sought, the stack is empty or
\* leads from the cursor's tree, child by child at the stored indices (each
\* within its node's children), to a node of height 1, and item() returns the
\* value of a leaf without aborting.
C25_Stack ==
    (cur.tree # Null /\ cur.did_seek) =>
       /\ cur.stack = << >> \/ PathToLeafParent(mem, cur)
       /\ ~Cursor_item(mem, cur).panic
       /\ Cursor_item(mem, cur).value =
             IF cur.stack = << >> THEN None
             ELSE ItemAt(LeavesLeft(mem, cur.stack, Len(cur.stack)) + 1)

\* next() has crossed into the next node of a tree of height 3
C25_Witness ==
    /\ out.op = "next" /\ cur.did_seek
    /\ Len(cur.stack) = 3
    /\ cur.stack[3].index = 0 /\ cur.stack[2].index = 0 /\ cur.stack[1].index > 0
\* a slice after prev() has left the cursor inside a tree of height 3
C25_WitnessSlice ==
    /\ out.op = "slice" /\ ~chain.clean
    /\ Len(cur.stack) = 3 /\ cur.stack[3].index > 0
\* the stack is empty after a seek past the end
C25_WitnessEmpty ==
    /\ out.op = "seek" /\ cur.did_seek /\ cur.stack = << >> /\ cur.prev_leaf # Null

\* ------------------------------------------------------------------------
\* Before the start
\* ------------------------------------------------------------------------
\* prev() has stepped the cursor off the first item of a tree that has items
BeforeStart(c) ==
    /\ c.tree # Null /\ c.did_seek
    /\ c.stack = << >> /\ c.prev_leaf = Null
    /\ ref[1] # << >>

\* neither item() nor prev_item() has anything
NoItems(c) ==
    /\ ~Cursor_item(mem, c).panic
    /\ Cursor_item(mem, c).value = None
    /\ Cursor_prev_item(mem, c) = None

\* next() and prev() leave the cursor before the start, and so does every
\* slice to one of the given ends, which returns an empty tree; seek to the
\* front finds the first item again
Absorbing(ends) ==
    /\ \A r \in {Cursor_next(mem, cur), Cursor_prev(mem, cur)} :
          ~r.panic /\ NoItems(r.c) /\ BeforeStart(r.c)
    /\ \A D \in Dimensions, bias \in SeekBias :
          \A end \in ends[D] :
             \A r \in {Cursor_slice(mem, cur, D, end, bias)} :
                /\ ~r.panic
                /\ NoItems(r.c) /\ BeforeStart(r.c)
                /\ items(r.m, r.slice) = << >>
    /\ \A r \in {Cursor_seek(mem, cur, "Count", 0, Left)} :
          ~r.panic /\ Cursor_item(mem, r.c).value = Some(ref[1][1])

AtOrAfterIdentity == [D \in Dimensions |-> {end \in Positions(D) : end >= 0}]

AtOrAfterStart ==
    [D \in Dimensions |-> {end \in Positions(D) : end >= Cursor_start(cur, D)}]

\* C26: once prev() has stepped the cursor off the first item of a non-empty
\* tree (no frame, no previous leaf, did_seek true), next(), prev() and
\* slice(end, bias) for every end at or after the identity leave item() and
\* prev_item() none, such a slice returns an empty tree, and a seek finds an
\* item again.
C26_BeforeStart == BeforeStart(cur) => Absorbing(AtOrAfterIdentity)

\* The same for the slices whose end is not before the cursor's start().
BeforeStartForward == BeforeStart(cur) => Absorbing(AtOrAfterStart)

\* a call made before the start has left the cursor there
BeforeStartReached ==
    /\ BeforeStart(cur) /\ ~chain.clean /\ chain.steps > 0
    /\ out.op \in {"next", "prev", "slice"}

====
